---- MODULE Spec2Model ----
(***************************************************************************)
(* A model of mincepie (src/mincepie/mince.py): the coordinator's          *)
(* TaskManager, the Protocol handshake and framing shared by both          *)
(* endpoints, the ServerChannel on the coordinator and the Client worker.  *)
(*                                                                         *)
(* Modelling conventions                                                   *)
(*  - One action is one callback of the asyncore event loop run to         *)
(*    completion (found_terminator on one frame, handle_accept,            *)
(*    handle_close), with everything it calls.                             *)
(*  - A frame is what found_terminator sees: a command line, or the        *)
(*    payload that follows a line announcing a byte count.                 *)
(*  - asynchat's handle_read hands every frame of the chunk it has read    *)
(*    to found_terminator, also after a handler has closed the endpoint:   *)
(*    when an endpoint closes, any prefix of the frames in flight to it    *)
(*    may have been read with the frame that closed it, and is still       *)
(*    processed.  A closed endpoint sends nothing (push on a closed        *)
(*    dispatcher only queues).                                             *)
(*  - An exception escaping a callback reaches asyncore's handle_error,    *)
(*    which closes the endpoint; the handlers below return "raised".       *)
(*  - A wire string is a tuple: << >> is the empty string, <<"len">> a     *)
(*    decimal byte count, <<n>> the nonce n, <<"mac", key, data>> the hex  *)
(*    HMAC-SHA1 of data under key, <<"junk">> any other text.              *)
(*  - Python's None is the string "None" for the auth and mid_command      *)
(*    fields and the record NoneVal for optional payload values.           *)
(*  - time.time() is a logical clock that advances at every assignment.    *)
(*  - The coordinator process is not killed: a worker's connection ends   *)
(*    when the worker dies or when a handler closes it.                    *)
(***************************************************************************)
EXTENDS Integers, Sequences, FiniteSets, Bags, TLC

VARIABLES
    tm,         \* the TaskManager object (its attributes as record fields)
    listener,   \* the Server dispatcher socket: "listening" or "closed"
    clock,      \* the value the next time.time() call returns
    job,        \* FLAGS.mapper and FLAGS.reducer of the run
    chan,       \* the ServerChannel of each connection
    cli,        \* the Client of each connection
    s2c,        \* frames in flight from the coordinator to each client
    c2s,        \* frames in flight from each client to the coordinator
    rogue,      \* a rogue peer: the auth tokens it has received, the frames it has sent
    hist,       \* history: what the task manager has accepted and issued
    last,       \* history: what the last callback did
    written,    \* the calls of the Writer made by run_server, and what it was given
    dial        \* a worker in run_client, before its event loop

vars == <<tm, listener, clock, job, chan, cli, s2c, c2s, rogue, hist, last, written, dial>>

----------------------------------------------------------------------------
(* Bounds of the model *)

NumWorkers == 2
MaxKeys == 2
MaxClock == 20
MaxRogue == 4
MaxTimeout == 12

(* Program constants *)

report_interval == 10
CONNECTION_WAIT_TIME == 1
timeout == 60

Password == "default"
BadKey == "wrong"

\* os.urandom(20).encode("hex"): every send_challenge draws a nonce of its own.
NonceNames == <<"n1", "n2", "n3", "n4", "n5", "n6", "n7", "n8", "n9", "n10">>

AllKeys == <<"k0", "k1", "k2">>
Words == {"a", "b"}
\* The order in which a dict of these keys is iterated.
DictOrder == AllKeys \o <<"a", "b">>

Values == {<< >>, <<"a">>, <<"a", "b">>}

Workers == 1..NumWorkers
Rogue == 0
LoneClient == NumWorkers + 1
ServerChans == {Rogue} \cup Workers
Clients == Workers \cup {LoneClient}
ServerNonce(c) == NonceNames[2 * c + 1]
ClientNonce(w) == NonceNames[2 * w]

NoneVal == [some |-> FALSE, val |-> << >>]
Some(x) == [some |-> TRUE, val |-> x]

----------------------------------------------------------------------------
(* Dictionaries *)

RECURSIVE SeqFilter(_, _)
SeqFilter(s, S) ==
    IF s = << >> THEN << >>
    ELSE IF Head(s) \in S THEN <<Head(s)>> \o SeqFilter(Tail(s), S)
    ELSE SeqFilter(Tail(s), S)

\* iter(d): the keys of d in iteration order.
DictIter(d) == SeqFilter(DictOrder, DOMAIN d)

DictDel(d, k) == [x \in DOMAIN d \ {k} |-> d[x]]

DictSet(d, k, v) == [x \in DOMAIN d \cup {k} |-> IF x = k THEN v ELSE d[x]]

\* min(d, key=d.get): the first key, in iteration order, of least value.
RECURSIVE MinOver(_, _, _)
MinOver(d, s, best) ==
    IF s = << >> THEN best
    ELSE MinOver(d, Tail(s), IF d[Head(s)] < d[best] THEN Head(s) ELSE best)

\* Mutant: the newest assignment is picked.
MinKey_Newest(d) ==
    CHOOSE k \in DOMAIN d : \A j \in DOMAIN d : d[j] <= d[k]

MinKey(d) == MinOver(d, Tail(DictIter(d)), Head(DictIter(d)))

----------------------------------------------------------------------------
(* TaskManager *)

TaskManagerInit(datasource) ==
    [ datasource        |-> datasource,
      num_maps          |-> Cardinality(DOMAIN datasource),
      num_done_maps     |-> 0,
      state             |-> "START",
      trail             |-> <<"START">>,   \* history: every value assigned to state
      next_report_point |-> report_interval,
      attrs             |-> {},
      map_iter          |-> << >>,
      working_maps      |-> << >>,
      map_results       |-> << >>,
      reduce_iter       |-> << >>,
      working_reduces   |-> << >>,
      results           |-> << >> ]

\* What next_task returns, with the task manager it leaves behind.
\* ticked: time.time() was read for an assignment; close: server.handle_close().
Ret(t, command, data, ticked, close) ==
    [tm |-> t, command |-> command, data |-> data, ticked |-> ticked, close |-> close]

NextTaskStart(t) ==
    IF t.state = "START"
    THEN [t EXCEPT !.map_iter = DictIter(t.datasource),
                   !.working_maps = << >>,
                   !.map_results = << >>,
                   !.attrs = @ \cup {"map_iter", "working_maps", "map_results"},
                   !.state = "MAPPING",
                   !.trail = Append(@, "MAPPING")]
    ELSE t

\* Mutant: the reduce phase is skipped.
NextTaskStartReduce_Skip(t) ==
    [t EXCEPT !.state = "FINISHED",
              !.trail = Append(@, "FINISHED"),
              !.reduce_iter = DictIter(t.map_results),
              !.working_reduces = << >>,
              !.results = << >>,
              !.attrs = @ \cup {"reduce_iter", "working_reduces", "results"}]

NextTaskStartReduce(t) ==
    [t EXCEPT !.state = "REDUCING",
              !.trail = Append(@, "REDUCING"),
              !.reduce_iter = DictIter(t.map_results),
              !.working_reduces = << >>,
              !.results = << >>,
              !.attrs = @ \cup {"reduce_iter", "working_reduces", "results"}]

\* Mutant: a finished job tells the worker nothing.
NextTaskFinished_Silent(t) ==
    Ret(t, "None", NoneVal, FALSE, FALSE)

\* Mutant: a finished job leaves the listener open.
NextTaskFinished_KeepsListening(t) ==
    IF t.state = "FINISHED"
    THEN Ret(t, "disconnect", NoneVal, FALSE, FALSE)
    ELSE Ret(t, "None", NoneVal, FALSE, FALSE)

NextTaskFinished(t) ==
    IF t.state = "FINISHED"
    THEN Ret(t, "disconnect", NoneVal, FALSE, TRUE)
    ELSE Ret(t, "None", NoneVal, FALSE, FALSE)

\* Mutant: once the reduce iterator is exhausted nothing is offered again
\* while a reduce is outstanding.
NextTaskReducing_NoReoffer(t, now) ==
    IF t.state # "REDUCING" THEN NextTaskFinished(t)
    ELSE IF t.reduce_iter # << >>
    THEN LET key == Head(t.reduce_iter)
         IN Ret([t EXCEPT !.reduce_iter = Tail(@),
                          !.working_reduces = DictSet(@, key, now)],
                "reduce", Some(<<key, t.map_results[key]>>), TRUE, FALSE)
    ELSE IF DOMAIN t.working_reduces # {}
    THEN Ret(t, "None", NoneVal, FALSE, FALSE)
    ELSE NextTaskFinished([t EXCEPT !.state = "FINISHED",
                                   !.trail = Append(@, "FINISHED")])

\* Mutant: a reassigned reduce carries only the first value of the list.
NextTaskReducing_ShortReoffer(t, now) ==
    IF t.state # "REDUCING" THEN NextTaskFinished(t)
    ELSE IF t.reduce_iter # << >>
    THEN LET key == Head(t.reduce_iter)
         IN Ret([t EXCEPT !.reduce_iter = Tail(@),
                          !.working_reduces = DictSet(@, key, now)],
                "reduce", Some(<<key, t.map_results[key]>>), TRUE, FALSE)
    ELSE IF DOMAIN t.working_reduces # {}
    THEN LET key == MinKey(t.working_reduces)
         IN Ret([t EXCEPT !.working_reduces = DictSet(@, key, now)],
                "reduce", Some(<<key, <<Head(t.map_results[key])>>>>), TRUE, FALSE)
    ELSE NextTaskFinished([t EXCEPT !.state = "FINISHED",
                                   !.trail = Append(@, "FINISHED")])

NextTaskReducing(t, now) ==
    IF t.state # "REDUCING" THEN NextTaskFinished(t)
    ELSE IF t.reduce_iter # << >>
    THEN LET key == Head(t.reduce_iter)
         IN Ret([t EXCEPT !.reduce_iter = Tail(@),
                          !.working_reduces = DictSet(@, key, now)],
                "reduce", Some(<<key, t.map_results[key]>>), TRUE, FALSE)
    ELSE IF DOMAIN t.working_reduces # {}
    THEN LET key == MinKey(t.working_reduces)
         IN Ret([t EXCEPT !.working_reduces = DictSet(@, key, now)],
                "reduce", Some(<<key, t.map_results[key]>>), TRUE, FALSE)
    ELSE NextTaskFinished([t EXCEPT !.state = "FINISHED",
                                   !.trail = Append(@, "FINISHED")])

\* Mutant: the reduce phase starts as soon as the map iterator is exhausted,
\* without waiting for working_maps to empty.
NextTaskMapping_NoWait(t, now) ==
    IF t.state # "MAPPING" THEN NextTaskReducing(t, now)
    ELSE IF t.map_iter # << >>
    THEN LET map_key == Head(t.map_iter)
         IN Ret([t EXCEPT !.map_iter = Tail(@),
                          !.working_maps = DictSet(@, map_key, now)],
                "map", Some(<<map_key, t.datasource[map_key]>>), TRUE, FALSE)
    ELSE NextTaskReducing(NextTaskStartReduce(t), now)

\* Mutant: once the map iterator is exhausted nothing is offered again while
\* a map is outstanding.
NextTaskMapping_NoReoffer(t, now) ==
    IF t.state # "MAPPING" THEN NextTaskReducing(t, now)
    ELSE IF t.map_iter # << >>
    THEN LET map_key == Head(t.map_iter)
         IN Ret([t EXCEPT !.map_iter = Tail(@),
                          !.working_maps = DictSet(@, map_key, now)],
                "map", Some(<<map_key, t.datasource[map_key]>>), TRUE, FALSE)
    ELSE IF DOMAIN t.working_maps # {}
    THEN Ret(t, "None", NoneVal, FALSE, FALSE)
    ELSE NextTaskReducing(NextTaskStartReduce(t), now)

\* Mutant: the iterator is read but not advanced.
NextTaskMapping_NoPop(t, now) ==
    IF t.state # "MAPPING" THEN NextTaskReducing(t, now)
    ELSE IF t.map_iter # << >>
    THEN LET map_key == Head(t.map_iter)
         IN Ret([t EXCEPT !.working_maps = DictSet(@, map_key, now)],
                "map", Some(<<map_key, t.datasource[map_key]>>), TRUE, FALSE)
    ELSE IF DOMAIN t.working_maps # {}
    THEN LET key == MinKey(t.working_maps)
         IN Ret([t EXCEPT !.working_maps = DictSet(@, key, now)],
                "map", Some(<<key, t.datasource[key]>>), TRUE, FALSE)
    ELSE NextTaskReducing(NextTaskStartReduce(t), now)

NextTaskMapping(t, now) ==
    IF t.state # "MAPPING" THEN NextTaskReducing(t, now)
    ELSE IF t.map_iter # << >>
    THEN LET map_key == Head(t.map_iter)
         IN Ret([t EXCEPT !.map_iter = Tail(@),
                          !.working_maps = DictSet(@, map_key, now)],
                "map", Some(<<map_key, t.datasource[map_key]>>), TRUE, FALSE)
    ELSE IF DOMAIN t.working_maps # {}
    THEN LET key == MinKey(t.working_maps)
         IN Ret([t EXCEPT !.working_maps = DictSet(@, key, now)],
                "map", Some(<<key, t.datasource[key]>>), TRUE, FALSE)
    ELSE NextTaskReducing(NextTaskStartReduce(t), now)

next_task(t, now) == NextTaskMapping(NextTaskStart(t), now)

\* Mutant: the new partial list is put before the values already held.
ExtendResults_Prepend(map_results, mo) ==
    [k \in DOMAIN map_results \cup DOMAIN mo |->
        (IF k \in DOMAIN mo THEN mo[k] ELSE << >>)
        \o (IF k \in DOMAIN map_results THEN map_results[k] ELSE << >>)]

\* map_results after "for (key, values) in data[1].iteritems(): extend".
ExtendResults(map_results, mo) ==
    [k \in DOMAIN map_results \cup DOMAIN mo |->
        (IF k \in DOMAIN map_results THEN map_results[k] ELSE << >>)
        \o (IF k \in DOMAIN mo THEN mo[k] ELSE << >>)]

NextReportPoint(t, num_done) ==
    IF (num_done * 100) \div t.num_maps >= t.next_report_point
    THEN t.next_report_point + report_interval
    ELSE t.next_report_point

\* Mutant: a result without output is ignored altogether.
map_done_SkipsEmpty(t, data) ==
    IF "working_maps" \notin t.attrs THEN [tm |-> t, status |-> "raised"]
    ELSE IF data[1] \notin DOMAIN t.working_maps THEN [tm |-> t, status |-> "dropped"]
    ELSE IF ~data[2].some \/ data[2].val = << >> THEN [tm |-> t, status |-> "applied"]
    ELSE [tm |-> [t EXCEPT !.num_done_maps = @ + 1,
                           !.next_report_point = NextReportPoint(t, t.num_done_maps + 1),
                           !.map_results = ExtendResults(@, data[2].val),
                           !.working_maps = DictDel(@, data[1])],
          status |-> "applied"]

\* Mutant: the "already counted" test is missing.
map_done_NoCheck(t, data) ==
    IF "working_maps" \notin t.attrs THEN [tm |-> t, status |-> "raised"]
    ELSE [tm |-> [t EXCEPT !.num_done_maps = @ + 1,
                           !.next_report_point = NextReportPoint(t, t.num_done_maps + 1),
                           !.map_results = IF data[2].some
                                           THEN ExtendResults(@, data[2].val)
                                           ELSE @,
                           !.working_maps = DictDel(@, data[1])],
          status |-> "applied"]

\* Mutant: a result is used when its key is an input key, whether or not it
\* is still outstanding.
map_done_AcceptsLate(t, data) ==
    IF "working_maps" \notin t.attrs THEN [tm |-> t, status |-> "raised"]
    ELSE IF data[1] \notin DOMAIN t.datasource THEN [tm |-> t, status |-> "dropped"]
    ELSE [tm |-> [t EXCEPT !.num_done_maps = @ + 1,
                           !.next_report_point = NextReportPoint(t, t.num_done_maps + 1),
                           !.map_results = IF data[2].some
                                           THEN ExtendResults(@, data[2].val)
                                           ELSE @,
                           !.working_maps = DictDel(@, data[1])],
          status |-> "applied"]

\* map_done(data), data = <<key, output>>.  status: "raised" (an exception
\* left the method), "dropped" (the early return) or "applied".
\* Mutant: an applied result leaves its key in working_maps.
map_done_NoDel(t, data) ==
    IF "working_maps" \notin t.attrs THEN [tm |-> t, status |-> "raised"]
    ELSE IF data[1] \notin DOMAIN t.working_maps THEN [tm |-> t, status |-> "dropped"]
    ELSE [tm |-> [t EXCEPT !.num_done_maps = @ + 1,
                           !.next_report_point = NextReportPoint(t, t.num_done_maps + 1),
                           !.map_results = IF data[2].some
                                           THEN ExtendResults(@, data[2].val)
                                           ELSE @],
          status |-> "applied"]

map_done(t, data) ==
    IF "working_maps" \notin t.attrs THEN [tm |-> t, status |-> "raised"]
    ELSE IF data[1] \notin DOMAIN t.working_maps THEN [tm |-> t, status |-> "dropped"]
    ELSE [tm |-> [t EXCEPT !.num_done_maps = @ + 1,
                           !.next_report_point = NextReportPoint(t, t.num_done_maps + 1),
                           !.map_results = IF data[2].some
                                           THEN ExtendResults(@, data[2].val)
                                           ELSE @,
                           !.working_maps = DictDel(@, data[1])],
          status |-> "applied"]

\* Mutant: the key is not deleted from working_reduces.
reduce_done_NoDel(t, data) ==
    IF "working_reduces" \notin t.attrs THEN [tm |-> t, status |-> "raised"]
    ELSE IF data[1] \notin DOMAIN t.working_reduces THEN [tm |-> t, status |-> "dropped"]
    ELSE [tm |-> [t EXCEPT !.results = IF data[2].some
                                       THEN DictSet(@, data[1], data[2].val)
                                       ELSE @],
          status |-> "applied"]

\* Mutant: a value of None is stored like any other.
reduce_done_KeepNone(t, data) ==
    IF "working_reduces" \notin t.attrs THEN [tm |-> t, status |-> "raised"]
    ELSE IF data[1] \notin DOMAIN t.working_reduces THEN [tm |-> t, status |-> "dropped"]
    ELSE [tm |-> [t EXCEPT !.results = DictSet(@, data[1], data[2].val),
                           !.working_reduces = DictDel(@, data[1])],
          status |-> "applied"]

\* Mutant: a result is applied for every key of map_results, outstanding
\* or not.
reduce_done_AcceptsLate(t, data) ==
    IF "working_reduces" \notin t.attrs THEN [tm |-> t, status |-> "raised"]
    ELSE IF data[1] \notin DOMAIN t.map_results THEN [tm |-> t, status |-> "dropped"]
    ELSE [tm |-> [t EXCEPT !.results = IF data[2].some
                                       THEN DictSet(@, data[1], data[2].val)
                                       ELSE @,
                           !.working_reduces = DictDel(@, data[1])],
          status |-> "applied"]

reduce_done(t, data) ==
    IF "working_reduces" \notin t.attrs THEN [tm |-> t, status |-> "raised"]
    ELSE IF data[1] \notin DOMAIN t.working_reduces THEN [tm |-> t, status |-> "dropped"]
    ELSE [tm |-> [t EXCEPT !.results = IF data[2].some
                                       THEN DictSet(@, data[1], data[2].val)
                                       ELSE @,
                           !.working_reduces = DictDel(@, data[1])],
          status |-> "applied"]

----------------------------------------------------------------------------
(* Frames *)

Line(cmd, tail) == [kind |-> "line", cmd |-> cmd, tail |-> tail]
Payload(body) == [kind |-> "data", body |-> body]
\* A line that holds no SEPARATOR.
Noise == [kind |-> "noise"]

\* send_command(command, data, arg): the frames pushed.
send_command(command, data, arg) ==
    IF arg # << >> THEN <<Line(command, arg)>>
    ELSE IF data.some THEN <<Line(command, <<"len">>), Payload(data.val)>>
    ELSE <<Line(command, << >>)>>

\* hmac.new(key, data, hashlib.sha1).digest().encode("hex")
HMAC(key, data) == <<"mac", key, data>>

\* The message hmac.new(FLAGS.password, self.auth) digests: none for None.
AuthData(auth) == IF auth = "None" THEN << >> ELSE <<auth>>

----------------------------------------------------------------------------
(* Mappers and reducers (mapreducer.py, demo/wordcount.py) *)

\* The pairs mapper.map(key, value) yields, in order.
MapperMap(mapper, key, value) ==
    IF mapper = "IdentityMapper" THEN << <<key, value>> >>
    ELSE [i \in 1..Len(value) |-> <<value[i], 1>>]

RECURSIVE SumSeq(_)
SumSeq(s) == IF s = << >> THEN 0 ELSE Head(s) + SumSeq(Tail(s))

\* reducer.reduce(key, values)
ReducerReduce(reducer, key, values) ==
    CASE reducer = "IdentityReducer" -> Some(values)
      [] reducer = "SumReducer" -> Some(SumSeq(values))
      [] reducer = "FirstElementReducer" -> Some(values[1])
      [] OTHER -> NoneVal

\* Mutant: a pair replaces the list of its key.
RECURSIVE GroupPairs_KeepsLast(_, _)
GroupPairs_KeepsLast(pairs, results) ==
    IF pairs = << >> THEN results
    ELSE IF Head(pairs) = << >> THEN GroupPairs_KeepsLast(Tail(pairs), results)
    ELSE GroupPairs_KeepsLast(Tail(pairs),
                              DictSet(results, Head(pairs)[1], <<Head(pairs)[2]>>))

\* Mutant: the list of a key is created empty, without the first value.
RECURSIVE GroupPairs_EmptyFirst(_, _)
GroupPairs_EmptyFirst(pairs, results) ==
    IF pairs = << >> THEN results
    ELSE IF Head(pairs) = << >> THEN GroupPairs_EmptyFirst(Tail(pairs), results)
    ELSE LET key == Head(pairs)[1]
             val == Head(pairs)[2]
         IN GroupPairs_EmptyFirst(Tail(pairs),
                                  IF key \in DOMAIN results
                                  THEN DictSet(results, key, Append(results[key], val))
                                  ELSE DictSet(results, key, << >>))

\* The dict call_map builds from the yielded pairs; << >> stands for a
\* yielded None ("if kvpair is None: continue").
RECURSIVE GroupPairs(_, _)
GroupPairs(pairs, results) ==
    IF pairs = << >> THEN results
    ELSE IF Head(pairs) = << >> THEN GroupPairs(Tail(pairs), results)
    ELSE LET key == Head(pairs)[1]
             val == Head(pairs)[2]
         IN GroupPairs(Tail(pairs),
                       IF key \in DOMAIN results
                       THEN DictSet(results, key, Append(results[key], val))
                       ELSE DictSet(results, key, <<val>>))

----------------------------------------------------------------------------
(* Protocol, Client and ServerChannel.  A handler takes the callback's     *)
(* context x (side, password, now, nonce, job) and the running result r    *)
(* (the endpoint, the frames pushed, the task manager, what happened) and  *)
(* returns the result it leaves.                                           *)

ProtocolInit ==
    [status |-> "open", auth |-> "None", mid_command |-> "None",
     terminator |-> "NL", buffer |-> 0,
     challenge |-> "None"]   \* history: the nonce this endpoint sent

NoEndpoint == [ProtocolInit EXCEPT !.status = "none"]

NoEvent ==
    [op |-> "none",          \* the callback
     side |-> "none",        \* "server" or "client"
     conn |-> 0,             \* its connection
     auth0 |-> "None",       \* the endpoint's auth field when the callback began
     cmd |-> "none",         \* the command name it dispatched
     next_task |-> FALSE,    \* TaskManager.next_task was called
     issued |-> "None",      \* the command next_task returned
     task |-> << >>,         \* <<command, key>> of the assignment it returned
     md |-> "none",          \* how TaskManager.map_done ended
     rd |-> "none",          \* how TaskManager.reduce_done ended
     tm_kept |-> TRUE,       \* map_done or reduce_done left the task manager as it was
     verify |-> "none",      \* how verify_auth ended
     token |-> << >>,        \* the token verify_auth was given
     ran |-> "none",         \* call_map or call_reduce ran
     raised |-> FALSE]       \* an exception left the callback

Result(x, ep, t) ==
    [ep |-> ep, out |-> << >>, tm |-> t, ticked |-> FALSE, close |-> FALSE,
     ev |-> [NoEvent EXCEPT !.op = x.op, !.side = x.side, !.conn = x.conn,
                            !.auth0 = ep.auth]]

\* Mutant: closing tells the task manager, which forgets its assignments.
handle_close_Tells(r) ==
    [r EXCEPT !.ep.status = "closed", !.tm.working_maps = << >>,
              !.tm.working_reduces = << >>]

handle_close(r) == [r EXCEPT !.ep.status = "closed"]

\* An exception leaves the callback: asyncore's handle_error closes.
Raise(r) == [handle_close(r) EXCEPT !.ev.raised = TRUE]

send_challenge(x, r) ==
    [r EXCEPT !.ep.auth = x.nonce,
              !.ep.challenge = x.nonce,
              !.out = @ \o send_command("challenge", NoneVal, <<x.nonce>>)]

\* "command, data = self.server.taskmanager.next_task(self)" is nt.
start_new_task(x, r) ==
    CHOOSE r2 \in
        {[r EXCEPT !.tm = nt.tm,
                   !.ticked = nt.ticked,
                   !.close = nt.close,
                   !.ev.next_task = TRUE,
                   !.ev.issued = nt.command,
                   !.ev.task = IF nt.data.some THEN <<nt.command, nt.data.val[1]>> ELSE << >>,
                   !.out = IF nt.command = "None" THEN @
                           ELSE @ \o send_command(nt.command, nt.data, << >>)]
            : nt \in {next_task(r.tm, x.now)}} : TRUE

\* Mutant: the client challenges again whatever its auth field holds.
post_auth_init_Always(x, r) ==
    IF x.side = "server" THEN start_new_task(x, r)
    ELSE send_challenge(x, r)

post_auth_init(x, r) ==
    IF x.side = "server" THEN start_new_task(x, r)
    ELSE IF r.ep.auth = "None" THEN send_challenge(x, r)
    ELSE r

\* Mutant: the post-auth hook runs before the auth line is pushed.
respond_to_challenge_HookFirst(x, r, data) ==
    [post_auth_init(x, r) EXCEPT !.out = @ \o send_command("auth", NoneVal,
                                                         HMAC(x.password, data))]

respond_to_challenge(x, r, data) ==
    post_auth_init(x, [r EXCEPT !.out = @ \o send_command("auth", NoneVal,
                                                         HMAC(x.password, data))])

verify_auth(x, r, data) ==
    IF data = HMAC(x.password, AuthData(r.ep.auth))
    THEN [r EXCEPT !.ep.auth = "Done", !.ev.verify = "ok", !.ev.token = data]
    ELSE [handle_close(r) EXCEPT !.ev.verify = "fail", !.ev.token = data]

Protocol_process_command(x, r, command, data) ==
    CASE command = "challenge" -> respond_to_challenge(x, r, data)
      [] command = "disconnect" -> handle_close(r)
      [] OTHER -> handle_close(r)

\* data is Some(<<key, value>>), or NoneVal for a command without payload.
call_map(x, r, data) ==
    IF ~data.some THEN Raise([r EXCEPT !.ev.ran = "call_map"])
    ELSE LET key == data.val[1]
             results == GroupPairs(MapperMap(x.job.mapper, key, data.val[2]), << >>)
         IN [r EXCEPT !.ev.ran = "call_map",
                      !.out = @ \o send_command("mapdone",
                                                Some(<<key, Some(results)>>), << >>)]

call_reduce(x, r, data) ==
    IF ~data.some THEN Raise([r EXCEPT !.ev.ran = "call_reduce"])
    ELSE LET key == data.val[1]
             results == ReducerReduce(x.job.reducer, key, data.val[2])
         IN [r EXCEPT !.ev.ran = "call_reduce",
                      !.out = @ \o send_command("reducedone",
                                                Some(<<key, results>>), << >>)]

Client_process_command(x, r, command, data) ==
    CASE command = "map" -> call_map(x, r, data)
      [] command = "reduce" -> call_reduce(x, r, data)
      [] OTHER -> Protocol_process_command(x, r, command, data.val)

\* Mutant: the next task is asked for before the result is applied.
ServerChannel_map_done_TaskFirst(x, r, data) ==
    IF ~data.some THEN Raise([r EXCEPT !.ev.md = "typeerror"])
    ELSE CHOOSE r2 \in
             {LET md == map_done(r1.tm, data.val)
                  r3 == [r1 EXCEPT !.tm = md.tm, !.ev.md = md.status,
                                   !.ev.tm_kept = (md.tm = r1.tm)]
              IN IF md.status = "raised" THEN Raise(r3) ELSE r3
                : r1 \in {start_new_task(x, r)}} : TRUE

ServerChannel_map_done(x, r, data) ==
    IF ~data.some THEN Raise([r EXCEPT !.ev.md = "typeerror"])
    ELSE CHOOSE r2 \in
             {LET r1 == [r EXCEPT !.tm = md.tm, !.ev.md = md.status,
                                  !.ev.tm_kept = (md.tm = r.tm)]
              IN IF md.status = "raised" THEN Raise(r1) ELSE start_new_task(x, r1)
                : md \in {map_done(r.tm, data.val)}} : TRUE

ServerChannel_reduce_done(x, r, data) ==
    IF ~data.some THEN Raise([r EXCEPT !.ev.rd = "typeerror"])
    ELSE CHOOSE r2 \in
             {LET r1 == [r EXCEPT !.tm = rd.tm, !.ev.rd = rd.status,
                                  !.ev.tm_kept = (rd.tm = r.tm)]
              IN IF rd.status = "raised" THEN Raise(r1) ELSE start_new_task(x, r1)
                : rd \in {reduce_done(r.tm, data.val)}} : TRUE

ServerChannel_process_command(x, r, command, data) ==
    CASE command = "mapdone" -> ServerChannel_map_done(x, r, data)
      [] command = "reducedone" -> ServerChannel_reduce_done(x, r, data)
      [] OTHER -> Protocol_process_command(x, r, command, data.val)

process_command(x, r, command, data) ==
    IF x.side = "server" THEN ServerChannel_process_command(x, r, command, data)
    ELSE Client_process_command(x, r, command, data)

\* Mutant: a command that is not an unauthed one falls through to the
\* handlers of the authenticated state.
process_unauthed_command_FallThrough(x, r, command, data) ==
    CASE command = "challenge" -> respond_to_challenge(x, r, data)
      [] command = "auth" -> verify_auth(x, r, data)
      [] command = "disconnect" -> handle_close(r)
      [] OTHER -> process_command(x, r, command, NoneVal)

process_unauthed_command(x, r, command, data) ==
    CASE command = "challenge" -> respond_to_challenge(x, r, data)
      [] command = "auth" -> verify_auth(x, r, data)
      [] command = "disconnect" -> handle_close(r)
      [] OTHER -> handle_close(r)

\* Mutant: the payload branch resets the terminator but keeps mid_command.
FoundTerminatorBody_KeepsMid(x, r, f) ==
    IF r.ep.auth # "Done"
    THEN IF f.kind # "line" THEN Raise(r)
         ELSE process_unauthed_command(x, [r EXCEPT !.ev.cmd = f.cmd], f.cmd, f.tail)
    ELSE IF r.ep.mid_command = "None"
    THEN IF f.kind # "line" THEN Raise(r)
         ELSE IF f.cmd = "challenge"
         THEN process_command(x, [r EXCEPT !.ev.cmd = f.cmd], f.cmd, Some(f.tail))
         ELSE IF f.tail # << >>
         THEN IF f.tail = <<"len">>
              THEN [r EXCEPT !.ep.terminator = "LEN", !.ep.mid_command = f.cmd]
              ELSE Raise(r)
         ELSE process_command(x, [r EXCEPT !.ev.cmd = f.cmd], f.cmd, NoneVal)
    ELSE IF f.kind # "data" THEN Raise(r)
         ELSE process_command(x, [r EXCEPT !.ep.terminator = "NL",
                                           !.ev.cmd = r.ep.mid_command],
                              r.ep.mid_command, Some(f.body))

\* found_terminator on the frame f, without its last line (the buffer).
FoundTerminatorBody(x, r, f) ==
    IF r.ep.auth # "Done"
    THEN IF f.kind # "line" THEN Raise(r)
         ELSE process_unauthed_command(x, [r EXCEPT !.ev.cmd = f.cmd], f.cmd, f.tail)
    ELSE IF r.ep.mid_command = "None"
    THEN IF f.kind # "line" THEN Raise(r)
         ELSE IF f.cmd = "challenge"
         THEN process_command(x, [r EXCEPT !.ev.cmd = f.cmd], f.cmd, Some(f.tail))
         ELSE IF f.tail # << >>
         THEN IF f.tail = <<"len">>
              THEN [r EXCEPT !.ep.terminator = "LEN", !.ep.mid_command = f.cmd]
              ELSE Raise(r)
         ELSE process_command(x, [r EXCEPT !.ev.cmd = f.cmd], f.cmd, NoneVal)
    ELSE IF f.kind # "data" THEN Raise(r)
         ELSE process_command(x,
                  [r EXCEPT !.ep.terminator = "NL", !.ep.mid_command = "None",
                            !.ev.cmd = r.ep.mid_command],
                  r.ep.mid_command, Some(f.body))

\* collect_incoming_data, then found_terminator: an exception skips the
\* final "self.buffer = []".
found_terminator(x, ep, t, f) ==
    CHOOSE r2 \in
        {IF r.ev.raised THEN r ELSE [r EXCEPT !.ep.buffer = 0]
            : r \in {FoundTerminatorBody(x, Result(x, [ep EXCEPT !.buffer = 1], t), f)}} : TRUE

----------------------------------------------------------------------------
(* The run: the datasource the Reader returned and the registered classes *)

InputKeys(n) == {AllKeys[i] : i \in 1..n}

Datasources == UNION {[InputKeys(n) -> Values] : n \in 0..MaxKeys}

Jobs ==
    { [mapper |-> "IdentityMapper", reducer |-> "IdentityReducer"],
      [mapper |-> "IdentityMapper", reducer |-> "FirstElementReducer"],
      [mapper |-> "WordCountMapper", reducer |-> "SumReducer"],
      [mapper |-> "WordCountMapper", reducer |-> "NoPassReducer"] }

HistInit ==
    [maps_applied     |-> << >>,   \* input key -> map results applied to map_results
     reduces_applied  |-> << >>,   \* reduce key -> reduce results applied to results
     maps_returned    |-> << >>,   \* input key -> mapdone results delivered
     reduces_returned |-> << >>,   \* reduce key -> reducedone results delivered
     accepted |-> << >>,           \* reduce key -> the value of the result applied
     issued   |-> << >>,           \* <<command, key>> -> the assignments of it sent
     order    |-> << >>,           \* the mapdone payloads applied, in the order applied
     sent     |-> << >>,           \* <<command, key>> -> the values its assignments carried
     holding |-> [c \in ServerChans |-> << >>],  \* the unanswered assignment of a channel
     lost    |-> {}]               \* assignments whose worker died before answering

\* The bookkeeping of one callback's result r on channel c.
Count(d, k) == IF k \in DOMAIN d THEN d[k] ELSE 0

Incr(d, k) == DictSet(d, k, Count(d, k) + 1)

\* The value of the payload pushed with an assignment.
Carried(out) ==
    LET payloads == SelectSeq(out, LAMBDA fr : fr.kind = "data")
    IN payloads[Len(payloads)].body[2]

HistNext(c, r, f) ==
    [hist EXCEPT
        !.maps_applied = IF r.ev.md = "applied" THEN Incr(@, f.body[1]) ELSE @,
        !.reduces_applied = IF r.ev.rd = "applied" THEN Incr(@, f.body[1]) ELSE @,
        !.maps_returned = IF r.ev.md \in {"applied", "dropped"}
                          THEN Incr(@, f.body[1]) ELSE @,
        !.accepted = IF r.ev.rd = "applied" THEN DictSet(@, f.body[1], f.body[2]) ELSE @,
        !.reduces_returned = IF r.ev.rd \in {"applied", "dropped"}
                             THEN Incr(@, f.body[1]) ELSE @,
        !.issued = IF r.ev.task # << >> THEN Incr(@, r.ev.task) ELSE @,
        !.order = IF r.ev.md = "applied" THEN Append(@, f.body) ELSE @,
        !.sent = IF r.ev.task # << >>
                 THEN DictSet(@, r.ev.task,
                              (IF r.ev.task \in DOMAIN @ THEN @[r.ev.task] ELSE {})
                                  \cup {Carried(r.out)})
                 ELSE @,
        !.holding[c] = IF r.ev.task # << >> THEN r.ev.task
                       ELSE IF r.ev.md # "none" \/ r.ev.rd # "none" THEN << >>
                       ELSE @]

\* run_client at its first statement, in a worker started with --timeout=t.
DialInit(t) ==
    [pc |-> "start", timeout |-> t, time_spent |-> 0, connected |-> FALSE,
     socket |-> "none",
     failed |-> 0]     \* history: the connection attempts that raised socket.error

\* The coordinator after set_datasource, before run_server's event loop.
InitServer(datasource, j) ==
    /\ tm = TaskManagerInit(datasource)
    /\ listener = "listening"
    /\ clock = 1
    /\ job = j
    /\ chan = [c \in ServerChans |-> NoEndpoint]
    /\ cli = [w \in Clients |-> NoEndpoint]
    /\ s2c = [w \in Workers |-> << >>]
    /\ c2s = [w \in Workers |-> << >>]
    /\ rogue = [known |-> {}, seen |-> {}, sent |-> 0]
    /\ hist = HistInit
    /\ last = NoEvent
    /\ written = [calls |-> 0, results |-> << >>]

InitWith(datasource, j) ==
    /\ InitServer(datasource, j)
    /\ dial = DialInit(timeout)

Init == \E datasource \in Datasources, j \in Jobs : InitWith(datasource, j)

Context(op, side, c, password, nonce) ==
    [op |-> op, side |-> side, conn |-> c, password |-> password, now |-> clock,
     nonce |-> nonce, job |-> job]

----------------------------------------------------------------------------
(* Callbacks of the coordinator's event loop *)

\* Server.handle_accept for the worker w, whose connect() succeeded:
\* ServerChannel.__init__ and start_auth.
Accept(w) ==
    /\ listener = "listening"
    /\ chan[w].status = "none"
    /\ LET x == Context("accept", "server", w, Password, ServerNonce(w))
           r == send_challenge(x, Result(x, ProtocolInit, tm))
       IN /\ chan' = [chan EXCEPT ![w] = r.ep]
          /\ s2c' = [s2c EXCEPT ![w] = r.out]
          /\ last' = r.ev
    /\ cli' = [cli EXCEPT ![w] = ProtocolInit]
    /\ UNCHANGED <<tm, listener, clock, job, c2s, rogue, hist, written, dial>>

\* The effect of a ServerChannel callback's result r on the coordinator.
ServerApply(c, r, f) ==
    /\ r.ticked => clock <= MaxClock
    /\ tm' = r.tm
    /\ clock' = IF r.ticked THEN clock + 1 ELSE clock
    /\ listener' = IF r.close THEN "closed" ELSE listener
    /\ chan' = [chan EXCEPT ![c] = r.ep]
    /\ hist' = HistNext(c, r, f)
    /\ last' = r.ev

\* ServerChannel.found_terminator on the next frame of worker w.
\* The frames that stay for an endpoint that processed the head of queue and
\* has status st: all of them, or after a close the part read with the head.
Remaining(queue, st) ==
    IF st = "open" THEN {Tail(queue)}
    ELSE {SubSeq(queue, 2, n) : n \in 1..Len(queue)}

ServerRecv(w) ==
    /\ chan[w].status \in {"open", "closed"}
    /\ c2s[w] # << >>
    /\ \E f \in {Head(c2s[w])} :
       \E r \in {found_terminator(Context("found_terminator", "server", w, Password, ServerNonce(w)), chan[w], tm, f)} :
          /\ ServerApply(w, r, f)
          /\ \E rest \in Remaining(c2s[w], r.ep.status) : c2s' = [c2s EXCEPT ![w] = rest]
          /\ s2c' = [s2c EXCEPT ![w] = IF chan[w].status = "open" /\ cli[w].status = "open"
                                       THEN @ \o r.out ELSE @]
    /\ UNCHANGED <<job, cli, rogue, written, dial>>

\* ServerChannel.handle_close when the peer has gone and nothing is left to read.
ServerEOF(w) ==
    /\ chan[w].status = "open"
    /\ cli[w].status = "closed"
    /\ c2s[w] = << >>
    /\ chan' = [chan EXCEPT ![w].status = "closed"]
    /\ last' = [NoEvent EXCEPT !.op = "EOF", !.side = "server", !.conn = w,
                               !.auth0 = chan[w].auth]
    /\ UNCHANGED <<tm, listener, clock, job, cli, s2c, c2s, rogue, hist, written, dial>>

----------------------------------------------------------------------------
(* Callbacks of a worker's event loop *)

\* Client.found_terminator on the next frame from the coordinator, in a
\* worker process started with --password=password.
ClientRecvAs(w, password) ==
    /\ cli[w].status \in {"open", "closed"}
    /\ s2c[w] # << >>
    /\ \E f \in {Head(s2c[w])} :
       \E r \in {found_terminator(Context("found_terminator", "client", w, password, ClientNonce(w)), cli[w], tm, f)} :
          /\ cli' = [cli EXCEPT ![w] = r.ep]
          /\ \E rest \in Remaining(s2c[w], r.ep.status) : s2c' = [s2c EXCEPT ![w] = rest]
          /\ c2s' = [c2s EXCEPT ![w] = IF cli[w].status = "open" /\ chan[w].status = "open"
                                       THEN @ \o r.out ELSE @]
          /\ last' = r.ev
    /\ UNCHANGED <<tm, listener, clock, job, chan, rogue, hist, written, dial>>

\* A worker that holds the coordinator's secret.
ClientRecv(w) == ClientRecvAs(w, Password)

\* A worker whose secret differs from the coordinator's.
BadClientRecv(w) == ClientRecvAs(w, BadKey)

\* The worker process dies, or its connection breaks: nothing more is sent.
ClientDies(w) ==
    /\ cli[w].status = "open"
    /\ cli' = [cli EXCEPT ![w].status = "closed"]
    /\ s2c' = [s2c EXCEPT ![w] = << >>]
    /\ last' = [NoEvent EXCEPT !.op = "dies", !.side = "client", !.conn = w,
                               !.auth0 = cli[w].auth]
    /\ hist' = [hist EXCEPT !.lost = IF hist.holding[w] # << >> /\ c2s[w] = << >>
                                     THEN @ \cup {hist.holding[w]} ELSE @]
    /\ UNCHANGED <<tm, listener, clock, job, chan, c2s, rogue, written, dial>>

\* Mutant: the loop is taken to be over when no channel is open, whatever
\* the listener.
SocketMapEmpty_ChannelsOnly ==
    /\ \A c \in ServerChans : chan[c].status # "open"
    /\ \A w \in Workers : c2s[w] = << >>

\* asyncore.loop() returns in run_server: no socket is left in the map, and
\* no handle_read is in the middle of a chunk.
SocketMapEmpty ==
    /\ listener = "closed"
    /\ \A c \in ServerChans : chan[c].status # "open"
    /\ \A w \in Workers : c2s[w] = << >>

\* The end of run_server: the Writer is given taskmanager.results.
RunServerWrites ==
    /\ SocketMapEmpty
    /\ written.calls = 0
    /\ "results" \in tm.attrs
    /\ written' = [calls |-> written.calls + 1, results |-> tm.results]
    /\ last' = [NoEvent EXCEPT !.op = "write", !.side = "server"]
    /\ UNCHANGED <<tm, listener, clock, job, chan, cli, s2c, c2s, rogue, hist, dial>>

----------------------------------------------------------------------------
(* Client.run_client up to its event loop.  A call of connect() on the     *)
(* non-blocking socket ends in one of three ways: the connection is        *)
(* pending (EINPROGRESS, EALREADY), it is established, or socket.error is  *)
(* raised (refused, unreachable, the name does not resolve).               *)

ConnectOutcomes == {"pending", "ok", "error"}

\* time_spent = 0; create_socket; connect: the call before the loop, outside
\* any try.
RunClientConnect ==
    /\ dial.pc = "start"
    /\ \E o \in ConnectOutcomes :
          dial' = CASE o = "pending" -> [dial EXCEPT !.pc = "loop", !.socket = "open"]
                    [] o = "ok" -> [dial EXCEPT !.pc = "loop", !.socket = "open",
                                                !.connected = TRUE]
                    [] OTHER -> [dial EXCEPT !.pc = "raised", !.socket = "open",
                                             !.failed = @ + 1]
    /\ UNCHANGED <<tm, listener, clock, job, chan, cli, s2c, c2s, rogue, hist, last, written>>

\* One pass of "while (not self.connected) and time_spent < FLAGS.timeout".
RunClientRetry ==
    /\ dial.pc = "loop"
    /\ ~dial.connected
    /\ dial.time_spent < dial.timeout
    /\ \E o \in ConnectOutcomes :
          dial' = CASE o = "pending" -> dial
                    [] o = "ok" -> [dial EXCEPT !.connected = TRUE]
                    [] OTHER -> [dial EXCEPT !.time_spent = @ + CONNECTION_WAIT_TIME,
                                             !.failed = @ + 1]
    /\ UNCHANGED <<tm, listener, clock, job, chan, cli, s2c, c2s, rogue, hist, last, written>>

\* After the loop: asyncore.loop() when connected, self.close() otherwise.
RunClientLeavesLoop ==
    /\ dial.pc = "loop"
    /\ dial.connected \/ dial.time_spent >= dial.timeout
    /\ dial' = IF dial.connected THEN [dial EXCEPT !.pc = "event_loop"]
               ELSE [dial EXCEPT !.pc = "returned", !.socket = "closed"]
    /\ UNCHANGED <<tm, listener, clock, job, chan, cli, s2c, c2s, rogue, hist, last, written>>

----------------------------------------------------------------------------
(* A rogue peer.  It does not hold FLAGS.password.  It connects to the     *)
(* coordinator as a client (connection Rogue), it serves the worker        *)
(* LoneClient that connected to it instead of the coordinator, it sends    *)
(* any frame in any order, and it replays the auth tokens it was sent.     *)

\* Lines that are no command: one without SEPARATOR, and an unknown command
\* name with no argument, with an argument that is no number, and with a
\* byte count.
BadLines ==
    {Noise, Line("bogus", << >>), Line("bogus", <<"junk">>), Line("bogus", <<"len">>)}

RogueFrames ==
    {Line("challenge", t) : t \in {<< >>} \cup {<<n>> : n \in rogue.seen}}
    \cup {Line("auth", t) : t \in rogue.known \cup {<<"junk">>}}
    \cup {Line(cmd, <<"len">>) : cmd \in {"map", "reduce", "mapdone", "reducedone"}}
    \cup {Line("disconnect", << >>), Line("mapdone", << >>)}
    \cup BadLines

\* Payloads for the coordinator: <<key, output>>.
RogueResults ==
    {Payload(<<k, o>>) : k \in {"k0", "a"},
                         o \in {NoneVal, Some(<< >>), Some("a" :> <<2>>)}}

\* Payloads for a worker: <<key, value>>.
RogueTasks == {Payload(<<"k0", <<"a">>>>)}

\* The tokens of the auth frames among the frames out.
AuthTokens(out) ==
    {out[i].tail : i \in {j \in DOMAIN out : out[j].kind = "line" /\ out[j].cmd = "auth"}}

\* The nonces of the challenge frames among the frames out.
ChallengeNonces(out) ==
    {out[i].tail[1] : i \in {j \in DOMAIN out : out[j].kind = "line"
                                                /\ out[j].cmd = "challenge"}}

RogueNext(out) ==
    [known |-> rogue.known \cup AuthTokens(out),
     seen |-> rogue.seen \cup ChallengeNonces(out),
     sent |-> rogue.sent + 1]

\* Server.handle_accept for the rogue's connection.
RogueAccept ==
    /\ listener = "listening"
    /\ chan[Rogue].status = "none"
    /\ LET x == Context("accept", "server", Rogue, Password, ServerNonce(Rogue))
           r == send_challenge(x, Result(x, ProtocolInit, tm))
       IN /\ chan' = [chan EXCEPT ![Rogue] = r.ep]
          /\ rogue' = [rogue EXCEPT !.seen = @ \cup ChallengeNonces(r.out)]
          /\ last' = r.ev
    /\ UNCHANGED <<tm, listener, clock, job, cli, s2c, c2s, hist, written, dial>>

\* ServerChannel.found_terminator on a frame the rogue sends.
RogueToServer(f) ==
    /\ chan[Rogue].status \in {"open", "closed"}
    /\ rogue.sent < MaxRogue
    /\ LET r == found_terminator(Context("found_terminator", "server", Rogue, Password, ServerNonce(Rogue)),
                                 chan[Rogue], tm, f)
       IN /\ ServerApply(Rogue, r, f)
          /\ rogue' = RogueNext(IF chan[Rogue].status = "open" THEN r.out ELSE << >>)
    /\ UNCHANGED <<job, cli, s2c, c2s, written, dial>>

\* ServerChannel.handle_close when the rogue closes its connection.
RogueCloses ==
    /\ chan[Rogue].status = "open"
    /\ chan' = [chan EXCEPT ![Rogue].status = "closed"]
    /\ last' = [NoEvent EXCEPT !.op = "EOF", !.side = "server", !.conn = Rogue,
                               !.auth0 = chan[Rogue].auth]
    /\ UNCHANGED <<tm, listener, clock, job, cli, s2c, c2s, rogue, hist, written, dial>>

\* Client.run_client of the worker whose address is the rogue's.
LoneConnect ==
    /\ cli[LoneClient].status = "none"
    /\ cli' = [cli EXCEPT ![LoneClient] = ProtocolInit]
    /\ last' = [NoEvent EXCEPT !.op = "connect", !.side = "client", !.conn = LoneClient]
    /\ UNCHANGED <<tm, listener, clock, job, chan, s2c, c2s, rogue, hist, written, dial>>

\* Client.found_terminator on a frame the rogue sends.
RogueToClient(f) ==
    /\ cli[LoneClient].status \in {"open", "closed"}
    /\ rogue.sent < MaxRogue
    /\ LET r == found_terminator(Context("found_terminator", "client", LoneClient, Password, ClientNonce(LoneClient)),
                                 cli[LoneClient], tm, f)
       IN /\ cli' = [cli EXCEPT ![LoneClient] = r.ep]
          /\ rogue' = RogueNext(IF cli[LoneClient].status = "open" THEN r.out ELSE << >>)
          /\ last' = r.ev
    /\ UNCHANGED <<tm, listener, clock, job, chan, s2c, c2s, hist, written, dial>>

Next ==
    \/ \E w \in Workers : Accept(w)
    \/ \E w \in Workers : ServerRecv(w)
    \/ \E w \in Workers : ServerEOF(w)
    \/ \E w \in Workers : ClientRecv(w)
    \/ \E w \in Workers : ClientDies(w)
    \/ RunServerWrites

Spec == Init /\ [][Next]_vars

\* One word-count job over MaxKeys inputs, with the event loops of the
\* coordinator and of every worker serving each readable socket in turn
\* (asyncore.loop): a frame that waits on an open connection is eventually
\* handed to found_terminator.
InitLive ==
    \E j \in {[mapper |-> "WordCountMapper", reducer |-> "SumReducer"]} :
        InitWith([k \in InputKeys(MaxKeys) |-> <<"a", "b">>], j)

Fairness ==
    \A w \in Workers : WF_vars(ServerRecv(w)) /\ WF_vars(ClientRecv(w))

SpecLive == InitLive /\ [][Next]_vars /\ Fairness

\* The run of two input pairs of value "a" under IdentityMapper and
\* FirstElementReducer.
InitKill ==
    \E j \in {[mapper |-> "IdentityMapper", reducer |-> "FirstElementReducer"]} :
        InitWith([k \in {AllKeys[1], AllKeys[2]} |-> <<"a">>], j)

SpecKill == InitKill /\ [][Next]_vars /\ Fairness

\* The conforming workers that run beside the rogue.
AdvWorkers == {1}

NextAdv ==
    \/ \E w \in AdvWorkers : Accept(w)
    \/ \E w \in AdvWorkers : ServerRecv(w)
    \/ \E w \in AdvWorkers : ServerEOF(w)
    \/ \E w \in AdvWorkers : ClientRecv(w)
    \/ \E w \in AdvWorkers : ClientDies(w)
    \/ RogueAccept
    \/ \E f \in RogueFrames \cup RogueResults : RogueToServer(f)
    \/ RogueCloses
    \/ LoneConnect
    \/ \E f \in RogueFrames \cup RogueTasks : RogueToClient(f)

InitAdv ==
    \E j \in {[mapper |-> "WordCountMapper", reducer |-> "FirstElementReducer"]} :
        InitWith([k \in InputKeys(MaxKeys) |-> <<"a">>], j)

SpecAdv == InitAdv /\ [][NextAdv]_vars

\* A run in which the last worker was started with another secret.
BadWorker == NumWorkers

GoodWorkers == Workers \ {BadWorker}

NextBad ==
    \/ \E w \in Workers : Accept(w)
    \/ \E w \in Workers : ServerRecv(w)
    \/ \E w \in Workers : ServerEOF(w)
    \/ \E w \in GoodWorkers : ClientRecv(w)
    \/ BadClientRecv(BadWorker)
    \/ \E w \in Workers : ClientDies(w)

SpecBad == InitAdv /\ [][NextBad]_vars

\* A worker started with any --timeout up to MaxTimeout, in run_client.
InitDial ==
    /\ InitServer([k \in InputKeys(MaxKeys) |-> <<"a">>],
                  [mapper |-> "WordCountMapper", reducer |-> "FirstElementReducer"])
    /\ \E t \in 0..MaxTimeout : dial = DialInit(t)

NextDial ==
    \/ RunClientConnect
    \/ RunClientRetry
    \/ RunClientLeavesLoop

SpecDial == InitDial /\ [][NextDial]_vars

TypeOK ==
    /\ tm.state \in {"START", "MAPPING", "REDUCING", "FINISHED"}
    /\ listener \in {"listening", "closed"}
    /\ clock \in 1..(MaxClock + 1)
    /\ written.calls \in 0..1
    /\ dial.pc \in {"start", "loop", "event_loop", "returned", "raised"}
    /\ dial.time_spent \in 0..(dial.timeout + CONNECTION_WAIT_TIME)

----------------------------------------------------------------------------
(* What the run should compute, from the datasource and the mapper alone *)

RECURSIVE AllEmitted(_)
\* The pairs the mapper yields when each input key of keys is mapped once.
AllEmitted(keys) ==
    IF keys = << >> THEN << >>
    ELSE MapperMap(job.mapper, Head(keys), tm.datasource[Head(keys)])
         \o AllEmitted(Tail(keys))

EmittedPairs == AllEmitted(DictIter(tm.datasource))

EmittedKeys == {EmittedPairs[i][1] : i \in DOMAIN EmittedPairs}

\* A sequence as a multiset: element -> number of occurrences.
SeqBag(s) ==
    [v \in {s[i] : i \in DOMAIN s} |-> Cardinality({i \in DOMAIN s : s[i] = v})]

\* The multiset of the values emitted for the intermediate key k.
EmittedBag(k) ==
    LET at == {i \in DOMAIN EmittedPairs : EmittedPairs[i][1] = k}
    IN [v \in {EmittedPairs[i][2] : i \in at} |->
           Cardinality({i \in at : EmittedPairs[i][2] = v})]

----------------------------------------------------------------------------
(* C1: the task manager never finalizes early.  Whenever state is FINISHED,*)
(* every datasource key has had exactly one map result applied, every key  *)
(* of map_results has had exactly one reduce result applied, both          *)
(* iterators are exhausted and both working sets are empty.                *)
C1_NeverFinalizesEarly ==
    tm.state = "FINISHED" =>
        /\ \A k \in DOMAIN tm.datasource : Count(hist.maps_applied, k) = 1
        /\ \A k \in DOMAIN tm.map_results : Count(hist.reduces_applied, k) = 1
        /\ tm.map_iter = << >>
        /\ tm.reduce_iter = << >>
        /\ DOMAIN tm.working_maps = {}
        /\ DOMAIN tm.working_reduces = {}

\* A finished run of two input keys in which a worker died holding a task.
C1_Witness ==
    /\ tm.state = "FINISHED"
    /\ tm.num_maps = 2
    /\ DOMAIN tm.map_results # {}
    /\ hist.lost # {}

(* C2: no loss and no duplication in the shuffle.  Once the task manager   *)
(* has left MAPPING, map_results has exactly the intermediate keys the     *)
(* mapper emits over the datasource, and the values held for each key are, *)
(* as a multiset, the values emitted for it when every input key is mapped *)
(* exactly once.                                                           *)
C2_ShuffleExact ==
    tm.state \in {"REDUCING", "FINISHED"} =>
        /\ DOMAIN tm.map_results = EmittedKeys
        /\ \A k \in EmittedKeys : SeqBag(tm.map_results[k]) = EmittedBag(k)

\* The reduce phase has begun, a map task was answered by two workers, and
\* two input keys emitted the same pair.
C2_Witness ==
    /\ tm.state = "REDUCING"
    /\ \E k \in DOMAIN hist.maps_returned : hist.maps_returned[k] >= 2
    /\ \E i, j \in DOMAIN EmittedPairs : i # j /\ EmittedPairs[i] = EmittedPairs[j]
    /\ \E k \in DOMAIN tm.map_results : Len(tm.map_results[k]) >= 2

(* C4: at-most-once result application.  For each input key at most one    *)
(* mapdone is ever applied, for each intermediate key at most one          *)
(* reducedone, and a key whose result has been applied is never in the     *)
(* working set again.                                                      *)
C4_AtMostOnce ==
    /\ \A k \in DOMAIN hist.maps_applied :
          /\ hist.maps_applied[k] <= 1
          /\ k \notin DOMAIN tm.working_maps
    /\ \A k \in DOMAIN hist.reduces_applied :
          /\ hist.reduces_applied[k] <= 1
          /\ k \notin DOMAIN tm.working_reduces

\* A second result for a map key and a second result for a reduce key have
\* both been delivered, after the first of each was applied.
C4_Witness ==
    /\ \E k \in DOMAIN hist.maps_returned :
          hist.maps_returned[k] >= 2 /\ Count(hist.maps_applied, k) = 1
    /\ \E k \in DOMAIN hist.reduces_returned :
          hist.reduces_returned[k] >= 2 /\ Count(hist.reduces_applied, k) = 1

\* The assignments a job can make, and "a result for t was accepted".
AllTasks == {<<c, k>> : c \in {"map", "reduce"}, k \in {DictOrder[i] : i \in DOMAIN DictOrder}}

Accepted(t) ==
    IF t[1] = "map" THEN Count(hist.maps_applied, t[2]) = 1
    ELSE Count(hist.reduces_applied, t[2]) = 1

(* C3: recovery from worker loss.  When a worker died holding a task       *)
(* without having returned its result, and another worker w is connected,  *)
(* then either w too goes away or the job reaches FINISHED with exactly    *)
(* one result accepted for every task so lost (it was offered again).      *)
C3_RecoversLostTask ==
    \A w \in Workers :
        (hist.lost # {} /\ cli[w].status = "open")
            ~> \/ tm.state = "FINISHED" /\ \A t \in hist.lost : Accepted(t)
               \/ cli[w].status # "open"

\* A reduce was lost with its worker, it was handed out again, and the job
\* finished with one result accepted for it.
C3_Witness ==
    /\ tm.state = "FINISHED"
    /\ \E k \in DOMAIN tm.results :
          /\ <<"reduce", k>> \in hist.lost
          /\ Accepted(<<"reduce", k>>)
    /\ \E w \in Workers : cli[w].status = "open"

----------------------------------------------------------------------------
\* The endpoint the callback recorded in last ran on.
LastEndpoint == IF last.side = "server" THEN chan[last.conn] ELSE cli[last.conn]

(* C5: map_done((k, mo)) with k not in working_maps is dropped silently,   *)
(* in every task-manager state in which an authenticated channel delivers  *)
(* a mapdone: it raises no error and leaves the task manager as it was.    *)
C5_MapDoneDropsSilently ==
    last.md \in {"dropped", "raised"} =>
        /\ last.md = "dropped"
        /\ last.tm_kept
        /\ ~last.raised

(* C6: reduce_done((k', v)) with k' not in working_reduces is dropped      *)
(* silently, in every task-manager state in which an authenticated channel *)
(* delivers a reducedone: it raises no error and leaves the task manager   *)
(* as it was.                                                              *)
C6_ReduceDoneDropsSilently ==
    last.rd \in {"dropped", "raised"} =>
        /\ last.rd = "dropped"
        /\ last.tm_kept
        /\ ~last.raised

(* C7: the coordinator calls next_task for a connection, and sends a map   *)
(* or reduce frame on it, only when the ServerChannel's auth is "Done".    *)
C7_NoTaskBeforeAuth ==
    (last.side = "server" /\ (last.next_task \/ last.issued \in {"map", "reduce"}))
        => last.auth0 = "Done"

(* C8: an endpoint whose auth is not "Done" dispatches only challenge,     *)
(* auth and disconnect.  For a frame received in that state a worker runs  *)
(* neither call_map nor call_reduce, the coordinator passes nothing to     *)
(* map_done or reduce_done, no payload is awaited, and any other command   *)
(* name closes the connection.                                             *)
C8_UnauthedDispatch ==
    (last.op = "found_terminator" /\ last.auth0 # "Done") =>
        /\ last.ran = "none"
        /\ last.md = "none"
        /\ last.rd = "none"
        /\ LastEndpoint.mid_command = "None"
        /\ last.cmd \notin {"challenge", "auth", "disconnect"}
              => LastEndpoint.status = "closed"

\* A mapdone line reached a ServerChannel that had not authenticated its peer.
C8_Witness ==
    /\ last.op = "found_terminator"
    /\ last.side = "server"
    /\ last.auth0 # "Done"
    /\ last.cmd = "mapdone"
    /\ chan[last.conn].status = "closed"

(* C9: auth becomes "Done" only in verify_auth, and only on the token      *)
(* HMAC(password, the nonce this endpoint itself sent in its challenge);   *)
(* any other token closes the connection and leaves auth other than        *)
(* "Done".  An endpoint that has sent no challenge authenticates nobody.   *)
C9_DoneOnlyByOwnNonce ==
    /\ \A c \in ServerChans : chan[c].auth = "Done" => chan[c].challenge # "None"
    /\ \A w \in Clients : cli[w].auth = "Done" => cli[w].challenge # "None"
    /\ last.verify = "ok" => last.token = HMAC(Password, <<LastEndpoint.challenge>>)
    /\ last.verify = "fail" => /\ LastEndpoint.status = "closed"
                               /\ LastEndpoint.auth # "Done"

(* C10: the authenticated state is monotonic.  No step changes an auth     *)
(* field that is "Done".                                                   *)
C10_AuthMonotonic ==
    [][ /\ \A c \in ServerChans : chan[c].auth = "Done" => chan'[c].auth = "Done"
        /\ \A w \in Clients : cli[w].auth = "Done" => cli'[w].auth = "Done" ]_vars

\* A client that was already authenticated answered a further challenge.
C10_Witness ==
    /\ last.op = "found_terminator"
    /\ last.side = "client"
    /\ last.auth0 = "Done"
    /\ last.cmd = "challenge"
    /\ cli[last.conn].auth = "Done"

----------------------------------------------------------------------------
(* C11: a worker whose secret differs from the coordinator's fails to      *)
(* authenticate, the coordinator closes its channel on its auth frame, and *)
(* no callback of that channel calls next_task or issues a task: the       *)
(* task manager is as that connection found it.                            *)
C11_BadSecretNoProgress ==
    /\ chan[BadWorker].auth # "Done"
    /\ (last.side = "server" /\ last.conn = BadWorker) =>
          /\ ~last.next_task
          /\ last.issued = "None"
          /\ last.cmd = "auth" => chan[BadWorker].status = "closed"

StateOrder == <<"START", "MAPPING", "REDUCING", "FINISHED">>

(* C13: the task-manager state only moves forward.  The values assigned to *)
(* state, in order, are always START, MAPPING, REDUCING, FINISHED up to    *)
(* the current one: no step shortens or rewrites that sequence, none       *)
(* leaves a state out (also when one next_task call passes through         *)
(* several), and FINISHED is never left.                                   *)
C13_StateForward ==
    [][ \E m \in 1..4, n \in 1..4 :
            /\ m <= n
            /\ tm.trail = SubSeq(StateOrder, 1, m)
            /\ tm'.trail = SubSeq(StateOrder, 1, n)
            /\ tm'.state = StateOrder[n]
            /\ tm.state = "FINISHED" => tm'.state = "FINISHED" ]_vars

\* A job with inputs whose mapper emitted nothing: one next_task call went
\* from MAPPING through REDUCING to FINISHED.
C13_Witness ==
    /\ tm.state = "FINISHED"
    /\ tm.num_maps > 0
    /\ DOMAIN tm.map_results = {}
    /\ tm.trail = StateOrder
    /\ last.next_task /\ last.issued = "disconnect"

(* C14: when the job is FINISHED, results holds exactly the intermediate   *)
(* keys whose accepted reducer value was present, each with that value.  A *)
(* key whose accepted value was None is not in results, and it has left    *)
(* working_reduces like the others; every intermediate key was accepted.   *)
C14_ResultsArePresentValues ==
    tm.state = "FINISHED" =>
        /\ DOMAIN hist.accepted = DOMAIN tm.map_results
        /\ DOMAIN tm.results = {k \in DOMAIN hist.accepted : hist.accepted[k].some}
        /\ \A k \in DOMAIN tm.results : tm.results[k] = hist.accepted[k].val
        /\ DOMAIN tm.working_reduces = {}

\* A job whose reducer returned None for every key finished with results empty.
C14_Witness ==
    /\ tm.state = "FINISHED"
    /\ job.reducer = "NoPassReducer"
    /\ Cardinality(DOMAIN hist.accepted) >= 2
    /\ \A k \in DOMAIN hist.accepted : ~hist.accepted[k].some
    /\ DOMAIN tm.results = {}

(* C15: with IdentityMapper and IdentityReducer over the datasource D the  *)
(* final results have exactly D's keys, and the value of each key k is the *)
(* one-element list <<D[k]>>, whatever the interleaving of the workers and *)
(* however often a task was handed out again.                              *)
C15_IdentityRoundTrip ==
    (/\ tm.state = "FINISHED"
     /\ job.mapper = "IdentityMapper"
     /\ job.reducer = "IdentityReducer") =>
        /\ DOMAIN tm.results = DOMAIN tm.datasource
        /\ \A k \in DOMAIN tm.datasource : tm.results[k] = <<tm.datasource[k]>>

\* An identity job over two inputs finished after a worker was lost and a
\* map result was delivered twice.
C15_Witness ==
    /\ tm.state = "FINISHED"
    /\ job.mapper = "IdentityMapper"
    /\ job.reducer = "IdentityReducer"
    /\ tm.num_maps = 2
    /\ hist.lost # {}
    /\ \E k \in DOMAIN tm.datasource : Count(hist.maps_returned, k) >= 2
    /\ \A k \in DOMAIN tm.datasource : k \in DOMAIN tm.results

(* C16: with an empty datasource the first next_task call takes the task   *)
(* manager from START through MAPPING and REDUCING to FINISHED, returns    *)
(* disconnect and assigns nothing: no map or reduce frame is ever sent, no *)
(* worker runs call_map or call_reduce, time.time() is never read for an   *)
(* assignment, and results stays empty.                                    *)
C16_EmptyDatasource ==
    tm.num_maps = 0 =>
        /\ tm.state \in {"START", "FINISHED"}
        /\ tm.state = "FINISHED" => tm.trail = StateOrder /\ tm.results = << >>
        /\ last.next_task => last.issued = "disconnect" /\ last.task = << >>
        /\ last.ran = "none"
        /\ clock = 1
        /\ \A c \in ServerChans : hist.holding[c] = << >>
        /\ \A w \in Workers : \A i \in DOMAIN s2c[w] :
              s2c[w][i].kind = "line" /\ s2c[w][i].cmd \notin {"map", "reduce"}

\* The first worker to authenticate was told to disconnect and closed.
C16_Witness ==
    /\ tm.num_maps = 0
    /\ tm.state = "FINISHED"
    /\ last.side = "client"
    /\ last.cmd = "disconnect"
    /\ last.auth0 = "Done"
    /\ cli[last.conn].status = "closed"
    /\ \E w \in Workers : cli[w].status = "none"

C18_ConnectLoopEnds ==
    /\ dial.pc # "raised"
    /\ dial.failed * CONNECTION_WAIT_TIME < dial.timeout + CONNECTION_WAIT_TIME
    /\ dial.pc = "returned" => /\ ~dial.connected
                               /\ dial.time_spent >= dial.timeout
                               /\ dial.socket = "closed"
    /\ dial.pc = "event_loop" => dial.connected

(* C19 as stated: an endpoint's auth state is "Done" only after both sides *)
(* of its connection have verified the other's HMAC response.  An endpoint *)
(* has verified exactly when its auth is "Done" (verify_auth is the only   *)
(* writer of "Done", and "Done" is never overwritten), so on every         *)
(* coordinator-worker connection either both ends are "Done" or neither.   *)
C19_DoneOnlyAfterBoth ==
    \A w \in Workers : chan[w].auth = "Done" <=> cli[w].auth = "Done"

(* C19 amended: an endpoint's auth state becomes "Done" only in the        *)
(* callback in which that endpoint itself verifies the other side's HMAC   *)
(* response; it does not wait for the other side's verification.  On a     *)
(* coordinator-worker connection the coordinator's channel is "Done"       *)
(* first: the worker is "Done" only when the coordinator's channel is.     *)
C19_DoneByOwnVerification ==
    [][ /\ \A c \in ServerChans :
              (chan[c].auth # "Done" /\ chan'[c].auth = "Done")
                  => (last'.verify = "ok" /\ last'.side = "server" /\ last'.conn = c)
        /\ \A w \in Clients :
              (cli[w].auth # "Done" /\ cli'[w].auth = "Done")
                  => (last'.verify = "ok" /\ last'.side = "client" /\ last'.conn = w)
        /\ \A w \in Workers : cli'[w].auth = "Done" => chan'[w].auth = "Done" ]_vars

\* The coordinator has just verified a worker that has not yet verified it.
C19_Witness ==
    /\ last.verify = "ok" /\ last.side = "server" /\ last.conn \in Workers
    /\ chan[last.conn].auth = "Done"
    /\ cli[last.conn].auth # "Done"

\* The task manager that next_task receives when the callback has first
\* passed the payload body to map_done or reduce_done.
AfterDone(body) ==
    IF tm.state = "MAPPING" THEN map_done(tm, body).tm
    ELSE IF tm.state = "REDUCING" THEN reduce_done(tm, body).tm
    ELSE tm

\* d with the timestamp of k set to now and every other entry as it was.
Refreshed(d, k, now) == [j \in DOMAIN d |-> IF j = k THEN now ELSE d[j]]

\* next_task(t, clock) offers again the oldest entry of a non-empty working
\* set whose iterator is exhausted, and changes nothing but its timestamp.
ReoffersOldest(t) ==
    LET nt == next_task(t, clock)
        k == nt.data.val[1]
    IN /\ (t.state = "MAPPING" /\ t.map_iter = << >> /\ DOMAIN t.working_maps # {})
            => /\ nt.command = "map" /\ nt.data.some
               /\ k \in DOMAIN t.working_maps
               /\ \A j \in DOMAIN t.working_maps : t.working_maps[k] <= t.working_maps[j]
               /\ nt.data.val[2] = t.datasource[k]
               /\ nt.tm = [t EXCEPT !.working_maps = Refreshed(@, k, clock)]
       /\ (t.state = "REDUCING" /\ t.reduce_iter = << >> /\ DOMAIN t.working_reduces # {})
            => /\ nt.command = "reduce" /\ nt.data.some
               /\ k \in DOMAIN t.working_reduces
               /\ \A j \in DOMAIN t.working_reduces : t.working_reduces[k] <= t.working_reduces[j]
               /\ nt.data.val[2] = t.map_results[k]
               /\ nt.tm = [t EXCEPT !.working_reduces = Refreshed(@, k, clock)]

(* C20: when the phase iterator is exhausted and the working set is not    *)
(* empty, next_task returns the phase's command for a key whose timestamp  *)
(* is the smallest of the working set, with the payload of its first       *)
(* assignment (datasource[k], or map_results[k], which no step changes     *)
(* during the reduce phase), sets that entry's timestamp to now and        *)
(* leaves every other entry and every other field of the task manager as   *)
(* it was.  This holds of every task manager the next callback may pass to *)
(* next_task: the current one, and the current one after map_done or       *)
(* reduce_done of the payload at the head of a worker's stream or of a     *)
(* payload of the rogue peer.                                              *)
C20_ReofferOldest ==
    /\ [](/\ ReoffersOldest(tm)
          /\ \A w \in Workers :
                (c2s[w] # << >> /\ c2s[w][1].kind = "data")
                    => ReoffersOldest(AfterDone(c2s[w][1].body))
          /\ \A p \in RogueResults : ReoffersOldest(AfterDone(p.body)))
    /\ [][ /\ tm'.datasource = tm.datasource
           /\ (tm.state = "REDUCING" /\ tm'.state = "REDUCING")
                 => tm'.map_results = tm.map_results ]_vars

\* The coordinator has just offered again the older of two outstanding map
\* tasks: the first key of the datasource, issued when the iterator was
\* already exhausted and both keys were in the working set.
C20_Witness ==
    /\ last.next_task /\ last.issued = "map" /\ last.md = "none"
    /\ tm.state = "MAPPING" /\ tm.map_iter = << >>
    /\ Cardinality(DOMAIN tm.working_maps) = 2
    /\ last.task = <<"map", Head(DictIter(tm.datasource))>>

\* The map iterator as the next call of next_task finds it: in START the
\* call itself creates it over the whole datasource.
PreIter(t) == IF t.state = "START" THEN DictIter(t.datasource) ELSE t.map_iter

\* The elements of the sequence s.
Range(s) == {s[i] : i \in DOMAIN s}

(* C21: callbacks interleave in any order but each runs alone.  The keys   *)
(* still in the map iterator are exactly the input keys never assigned,    *)
(* each once; a next_task call that finds the iterator non-empty hands out *)
(* its head, a key never assigned before, and advances the iterator; a     *)
(* call that hands out a key assigned before found the iterator exhausted. *)
(* So two channels hold the same map key only when the iterator is         *)
(* exhausted.                                                              *)
C21_FreshOnce ==
    /\ [](/\ \A k \in DOMAIN tm.datasource :
                k \in Range(PreIter(tm)) <=> Count(hist.issued, <<"map", k>>) = 0
          /\ \A i, j \in DOMAIN PreIter(tm) : PreIter(tm)[i] = PreIter(tm)[j] => i = j
          /\ \A c1, c2 \in ServerChans :
                (c1 # c2 /\ hist.holding[c1] # << >> /\ hist.holding[c1][1] = "map"
                 /\ hist.holding[c1] = hist.holding[c2]) => PreIter(tm) = << >>)
    /\ [][ (last'.next_task /\ last'.issued = "map") =>
             IF PreIter(tm) # << >>
             THEN /\ last'.task = <<"map", Head(PreIter(tm))>>
                  /\ Count(hist.issued, last'.task) = 0
                  /\ tm'.map_iter = Tail(PreIter(tm))
             ELSE /\ Count(hist.issued, last'.task) >= 1
                  /\ tm'.map_iter = << >> ]_vars

\* Two workers asked while keys remained and hold distinct keys, each
\* assigned once.
C21_Witness ==
    /\ last.next_task /\ last.issued = "map"
    /\ \E c1, c2 \in Workers :
          /\ c1 # c2
          /\ hist.holding[c1] = <<"map", AllKeys[1]>>
          /\ hist.holding[c2] = <<"map", AllKeys[2]>>
    /\ \A k \in DOMAIN tm.datasource : Count(hist.issued, <<"map", k>>) = 1
    /\ tm.map_iter = << >>

(* C22: map_results changes only in a callback that began in MAPPING and   *)
(* applied a mapdone; no mapdone delivered while the state is REDUCING or  *)
(* FINISHED is applied, and no step that begins in REDUCING or FINISHED    *)
(* changes map_results.                                                    *)
C22_MapResultsOnlyInMapping ==
    [][ /\ tm'.map_results # tm.map_results
              => (tm.state = "MAPPING" /\ last'.md = "applied")
        /\ tm.state \in {"REDUCING", "FINISHED"} => last'.md # "applied"
        /\ tm.state \in {"REDUCING", "FINISHED"}
              => tm'.map_results = tm.map_results ]_vars

\* A mapdone arrived after every input key's result had been applied, and
\* was dropped.
C22_Witness ==
    /\ last.md = "dropped" /\ last.side = "server"
    /\ tm.state \in {"REDUCING", "FINISHED"}
    /\ DOMAIN tm.map_results # {}
    /\ \A k \in DOMAIN tm.datasource : Count(hist.maps_applied, k) = 1

(* C23: results changes only in a callback that began in REDUCING and      *)
(* applied a reducedone; no reducedone delivered in FINISHED is applied    *)
(* and no step that begins in FINISHED changes results.                    *)
C23_ResultsOnlyInReducing ==
    [][ /\ tm'.results # tm.results
              => (tm.state = "REDUCING" /\ last'.rd = "applied")
        /\ tm.state = "FINISHED" => last'.rd # "applied"
        /\ tm.state = "FINISHED" => tm'.results = tm.results ]_vars

\* A reducedone arrived after the job had finished, and was dropped.
C23_Witness ==
    /\ last.rd = "dropped" /\ last.side = "server"
    /\ tm.state = "FINISHED"
    /\ DOMAIN tm.results # {}
    /\ \A k \in DOMAIN tm.map_results : Count(hist.reduces_applied, k) = 1

(* C24: working_maps holds only input keys that were assigned at least     *)
(* once and whose result has not been applied; a key leaves it only in a   *)
(* callback whose map_done applied a result for that key; it is empty in   *)
(* REDUCING and FINISHED.  working_reduces holds only keys of map_results  *)
(* that were assigned and whose result has not been applied, a key leaves  *)
(* it only through an applied reduce_done, and it is empty in FINISHED.    *)
C24_WorkingSets ==
    /\ [](/\ \A k \in DOMAIN tm.working_maps :
                /\ k \in DOMAIN tm.datasource
                /\ Count(hist.issued, <<"map", k>>) >= 1
                /\ Count(hist.maps_applied, k) = 0
          /\ tm.state \in {"REDUCING", "FINISHED"} => DOMAIN tm.working_maps = {}
          /\ \A k \in DOMAIN tm.working_reduces :
                /\ k \in DOMAIN tm.map_results
                /\ Count(hist.issued, <<"reduce", k>>) >= 1
                /\ Count(hist.reduces_applied, k) = 0
          /\ tm.state = "FINISHED" => DOMAIN tm.working_reduces = {})
    /\ [][ /\ \A k \in DOMAIN tm.working_maps \ DOMAIN tm'.working_maps :
                /\ last'.md = "applied"
                /\ Count(hist'.maps_applied, k) = Count(hist.maps_applied, k) + 1
           /\ \A k \in DOMAIN tm.working_reduces \ DOMAIN tm'.working_reduces :
                /\ last'.rd = "applied"
                /\ Count(hist'.reduces_applied, k) = Count(hist.reduces_applied, k) + 1 ]_vars

\* One key's result has just been applied and the key has left working_maps
\* while the other key, assigned twice, stays.
C24_Witness ==
    /\ last.md = "applied"
    /\ \E k1, k2 \in DOMAIN tm.datasource :
          /\ Count(hist.maps_applied, k1) = 1 /\ k1 \notin DOMAIN tm.working_maps
          /\ k2 \in DOMAIN tm.working_maps /\ Count(hist.issued, <<"map", k2>>) >= 2

\* The partial list for the reduce key k in the mapdone payload body.
Partial(body, k) ==
    IF body[2].some /\ k \in DOMAIN body[2].val THEN body[2].val[k] ELSE << >>

\* The partial lists for k of the payloads of order, one after the other.
RECURSIVE Partials(_, _)
Partials(order, k) ==
    IF order = << >> THEN << >>
    ELSE Partials(SubSeq(order, 1, Len(order) - 1), k) \o Partial(order[Len(order)], k)

(* C25: the value list of every reduce key is the concatenation of the     *)
(* partial lists for that key of the mapdone payloads the coordinator      *)
(* applied, in the order in which it applied them, each partial list as it *)
(* was sent; the keys of map_results are the keys of those payloads; and   *)
(* the payload of every reduce assignment on its way to a worker is that   *)
(* list.                                                                   *)
C25_ShuffleOrder ==
    /\ \A k \in DOMAIN tm.map_results : tm.map_results[k] = Partials(hist.order, k)
    /\ \A i \in DOMAIN hist.order :
          hist.order[i][2].some => DOMAIN hist.order[i][2].val \subseteq DOMAIN tm.map_results
    /\ \A w \in Workers : \A i \in DOMAIN s2c[w] :
          (s2c[w][i].kind = "line" /\ s2c[w][i].cmd = "reduce" /\ i < Len(s2c[w]))
              => s2c[w][i + 1].body[2] = Partials(hist.order, s2c[w][i + 1].body[1])

\* The second input key's result was applied before the first's, and the
\* list on its way to a reducer has the second key's values first.
C25_Witness ==
    /\ Len(hist.order) = 2
    /\ hist.order[1][1] = AllKeys[2] /\ hist.order[2][1] = AllKeys[1]
    /\ \E w \in Workers : \E i \in DOMAIN s2c[w] :
          /\ s2c[w][i].kind = "data"
          /\ s2c[w][i].body = <<"a", <<1, 2>>>>
    /\ last.issued = "reduce"

\* The assignments of command cmd sent so far, over the tasks in S.
RECURSIVE SumIssued(_, _)
SumIssued(cmd, S) ==
    IF S = {} THEN 0
    ELSE LET t == CHOOSE x \in S : TRUE
         IN (IF t[1] = cmd THEN hist.issued[t] ELSE 0) + SumIssued(cmd, S \ {t})

Issued(cmd) == SumIssued(cmd, DOMAIN hist.issued)

(* C26 as stated: with a single input pair, one map assignment is sent     *)
(* over the whole job, and one reduce assignment if the mapper emitted a   *)
(* key, whatever the number of workers.                                    *)
C26_SinglePairOneAssignment ==
    Cardinality(DOMAIN tm.datasource) = 1 =>
        /\ Issued("map") <= 1
        /\ Issued("reduce") <= 1
        /\ tm.state = "FINISHED" =>
              /\ Issued("map") = 1
              /\ DOMAIN tm.map_results # {} => Issued("reduce") = 1

(* C26 amended: with a single input pair every map assignment is of that   *)
(* one key and exactly one map result is applied; every reduce assignment  *)
(* is of a key the mapper emitted, and for each such key at least one is   *)
(* sent and exactly one result is applied.  A worker asking while the task *)
(* is outstanding is sent the same task again; when only one worker ever   *)
(* connected, every task was sent exactly once.                            *)
C26_SinglePairOneResult ==
    Cardinality(DOMAIN tm.datasource) = 1 =>
        /\ \A t \in DOMAIN hist.issued :
              /\ t[1] = "map" => t[2] \in DOMAIN tm.datasource
              /\ t[1] = "reduce" => t[2] \in DOMAIN tm.map_results
        /\ \A k \in DOMAIN hist.maps_applied : hist.maps_applied[k] = 1
        /\ \A k \in DOMAIN hist.reduces_applied : hist.reduces_applied[k] = 1
        /\ Cardinality({c \in ServerChans : chan[c].status # "none"}) <= 1
              => \A t \in DOMAIN hist.issued : hist.issued[t] = 1
        /\ tm.state = "FINISHED" =>
              /\ Issued("map") >= 1
              /\ DOMAIN hist.maps_applied = DOMAIN tm.datasource
              /\ DOMAIN hist.reduces_applied = DOMAIN tm.map_results
              /\ \A k \in DOMAIN tm.map_results : Count(hist.issued, <<"reduce", k>>) >= 1

\* A finished job of one input pair whose map task was sent twice and whose
\* mapper emitted two keys.
C26_Witness ==
    /\ Cardinality(DOMAIN tm.datasource) = 1
    /\ tm.state = "FINISHED"
    /\ Issued("map") = 2
    /\ Cardinality(DOMAIN tm.map_results) = 2
    /\ DOMAIN hist.maps_applied = DOMAIN tm.datasource

\* A worker died holding the map task of the first input key.
KilledHoldingFirst == <<"map", AllKeys[1]>> \in hist.lost

(* C27 as stated: in the run of {0:"a", 1:"a"} under IdentityMapper and    *)
(* FirstElementReducer in which a worker was killed holding map(0), the    *)
(* job finishes with results {"a":"a"}.                                    *)
C27_ResultsKeyedByValue ==
    (tm.state = "FINISHED" /\ KilledHoldingFirst) => tm.results = ("a" :> <<"a">>)

(* C27 amended: in that run, when a worker was killed holding map(0) and   *)
(* the other worker stays, the job finishes; at FINISHED map task 0 was    *)
(* sent at least twice, exactly one result was applied for it, and the     *)
(* results are {0:"a", 1:"a"}: the identity mapper keeps the input keys.   *)
C27_KilledWorkerScenario ==
    /\ []((tm.state = "FINISHED" /\ KilledHoldingFirst) =>
             /\ tm.results = [k \in {AllKeys[1], AllKeys[2]} |-> <<"a">>]
             /\ Count(hist.issued, <<"map", AllKeys[1]>>) >= 2
             /\ Count(hist.maps_applied, AllKeys[1]) = 1)
    /\ \A w \in Workers :
          (KilledHoldingFirst /\ cli[w].status = "open")
              ~> \/ tm.state = "FINISHED"
                 \/ cli[w].status # "open"

\* The job finished after a worker was killed holding map(0); the other
\* worker was sent map(0) again and is the only one that answered.
C27_Witness ==
    /\ tm.state = "FINISHED" /\ KilledHoldingFirst
    /\ Cardinality({w \in Workers : cli[w].status = "closed"}) >= 1
    /\ hist.maps_returned = [k \in {AllKeys[1], AllKeys[2]} |-> 1]
    /\ DOMAIN tm.results = {AllKeys[1], AllKeys[2]}

(* C28: in FINISHED the listener is closed, so no connection is accepted   *)
(* any more; every next_task call that ends in FINISHED closes the         *)
(* listener and returns disconnect, which goes out on the channel if it is *)
(* still connected, and a call that began in FINISHED changes nothing in   *)
(* the task manager; every result a worker returns in FINISHED is answered *)
(* by such a call; a worker that handles disconnect closes; and a worker   *)
(* connected in FINISHED does not stay connected for ever.                 *)
C28_FinishedDisconnects ==
    /\ [](tm.state = "FINISHED" => listener = "closed")
    /\ [][ /\ (tm'.state = "FINISHED" /\ last'.next_task)
                 => /\ last'.issued = "disconnect"
                    /\ listener' = "closed"
                    /\ \A w \in Workers :
                          (last'.conn = w /\ chan[w].status = "open" /\ cli[w].status = "open")
                              => /\ s2c'[w] # << >>
                                 /\ s2c'[w][Len(s2c'[w])] = Line("disconnect", << >>)
           /\ (tm.state = "FINISHED" /\ last'.next_task) => tm' = tm
           /\ (tm.state = "FINISHED" /\ (last'.md \in {"applied", "dropped"}
                                          \/ last'.rd \in {"applied", "dropped"}))
                 => last'.next_task
           /\ tm.state = "FINISHED"
                 => \A c \in ServerChans : chan[c].status = "none" => chan'[c].status = "none"
           /\ \A w \in Workers :
                 (last'.side = "client" /\ last'.conn = w /\ last'.cmd = "disconnect")
                     => cli'[w].status = "closed" ]_vars
    /\ \A w \in Workers :
          (tm.state = "FINISHED" /\ cli[w].status = "open") ~> cli[w].status # "open"

\* After the job finished a worker returned a duplicate result, was
\* answered disconnect and closed.
C28_Witness ==
    /\ tm.state = "FINISHED" /\ listener = "closed"
    /\ last.side = "client" /\ last.cmd = "disconnect"
    /\ cli[last.conn].status = "closed"
    /\ \E k \in DOMAIN hist.reduces_returned :
          hist.reduces_returned[k] > Count(hist.reduces_applied, k)

(* C29: a server channel whose next_task call reported the finished job    *)
(* sends disconnect and closes its own side: after the callback that sent  *)
(* disconnect the channel is closed.                                       *)
C29_DisconnectThenClose ==
    [][ \A c \in ServerChans :
          (last'.side = "server" /\ last'.conn = c /\ last'.issued = "disconnect")
              => chan'[c].status = "closed" ]_vars

(* C30: an authenticated server channel is sent an assignment only when it *)
(* has none unanswered: a callback on a channel that was authenticated     *)
(* when it began sends a map or reduce assignment only if the channel held *)
(* no assignment or the callback handled the result the peer returned.     *)
C30_OneUnansweredAssignment ==
    [][ \A c \in ServerChans :
          (last'.side = "server" /\ last'.conn = c /\ last'.auth0 = "Done"
           /\ last'.task # << >>)
              => \/ hist.holding[c] = << >>
                 \/ last'.md \in {"applied", "dropped"}
                 \/ last'.rd \in {"applied", "dropped"} ]_vars

\* The payload a conforming worker's channel is about to handle.
HeadBody(w) == Head(c2s[w]).body

(* C31: a callback that hands a mapdone or reducedone payload to the task  *)
(* manager applies it first and then calls next_task once: the task        *)
(* manager it leaves is next_task's result on map_done's (reduce_done's)   *)
(* result, and the assignment sent in reply is not the map (reduce) task   *)
(* of the key just returned.                                               *)
C31_ApplyThenNext ==
    [][ \A w \in Workers :
          (last'.side = "server" /\ last'.conn = w)
              => /\ last'.md \in {"applied", "dropped"}
                     => /\ last'.next_task
                        /\ tm' = next_task(map_done(tm, HeadBody(w)).tm, clock).tm
                        /\ last'.task # <<"map", HeadBody(w)[1]>>
                 /\ last'.rd \in {"applied", "dropped"}
                     => /\ last'.next_task
                        /\ tm' = next_task(reduce_done(tm, HeadBody(w)).tm, clock).tm
                        /\ last'.task # <<"reduce", HeadBody(w)[1]>> ]_vars

\* A worker returned the older of two outstanding map tasks and was sent
\* the other one again.
C31_Witness ==
    /\ last.md = "applied" /\ last.issued = "map"
    /\ Count(hist.issued, last.task) >= 2
    /\ hist.order # << >>
    /\ hist.order[Len(hist.order)][1] # last.task[2]
    /\ Count(hist.issued, <<"map", hist.order[Len(hist.order)][1]>>) = 1
    /\ tm.working_maps[last.task[2]] > 2

\* The mapdone payload applied last.
LastApplied == hist.order[Len(hist.order)]

(* C32: a callback that applies a map result whose output is None or an    *)
(* empty mapping leaves map_results as it was, removes the input key from  *)
(* working_maps and adds one to num_done_maps.                             *)
C32_EmptyOutputCounts ==
    [][ (last'.md = "applied" /\ LastApplied'[2] \in {NoneVal, Some(<< >>)})
            => /\ tm'.map_results = tm.map_results
               /\ LastApplied'[1] \in DOMAIN tm.working_maps
               /\ LastApplied'[1] \notin DOMAIN tm'.working_maps
               /\ DOMAIN tm'.working_maps \subseteq DOMAIN tm.working_maps \cup DOMAIN tm.datasource
               /\ tm'.num_done_maps = tm.num_done_maps + 1 ]_vars

\* A result of None was applied after another worker's counts had been
\* collected.
C32_Witness ==
    /\ last.md = "applied"
    /\ LastApplied[2] = NoneVal
    /\ tm.map_results # << >>
    /\ tm.num_done_maps = 2

\* The endpoints that exist.
Endpoints ==
    {chan[c] : c \in {c \in ServerChans : chan[c].status # "none"}}
        \cup {cli[w] : w \in {w \in Clients : cli[w].status # "none"}}

\* The endpoint of the callback that leads to the next state, before it.
PreEndpoint == IF last'.side = "server" THEN chan[last'.conn] ELSE cli[last'.conn]

\* mid_command is set exactly when the terminator is a byte count, and a
\* callback that decoded a payload leaves the endpoint in line mode with no
\* pending command.
LineLengthModes ==
    /\ [](\A e \in Endpoints : (e.mid_command # "None") <=> (e.terminator = "LEN"))
    /\ [][ (last'.op = "found_terminator" /\ PreEndpoint.terminator = "LEN"
                                          /\ last'.cmd # "none")
              => /\ last'.cmd = PreEndpoint.mid_command
                 /\ LastEndpoint'.terminator = "NL"
                 /\ LastEndpoint'.mid_command = "None" ]_vars

(* C33 as stated: besides the alternation of line mode and length mode,    *)
(* the incoming buffer of every endpoint is empty after every frame.       *)
C33_BufferAlwaysEmpty ==
    LineLengthModes /\ [](\A e \in Endpoints : e.buffer = 0)

(* C33, amended: the receiver alternates between line mode and length      *)
(* mode, mid_command being set exactly when the terminator is a byte       *)
(* count, and the buffer is empty after every frame whose handling         *)
(* returns; a frame whose handling raises leaves its bytes in the buffer   *)
(* of an endpoint that the error handler has closed.                       *)
C33_BufferEmptyUnlessRaised ==
    /\ LineLengthModes
    /\ [](\A e \in Endpoints : e.buffer # 0 => e.status = "closed")
    /\ [][ last'.op = "found_terminator"
              => (LastEndpoint'.buffer = 0 <=> ~last'.raised) ]_vars

\* A payload has just been handled by an endpoint that was in length mode,
\* and another endpoint holds the bytes of a frame that raised.
C33_Witness ==
    /\ last.op = "found_terminator" /\ last.md = "applied"
    /\ LastEndpoint.terminator = "NL" /\ LastEndpoint.buffer = 0
    /\ \E e \in Endpoints : e.buffer # 0 /\ e.terminator = "LEN"

\* found_terminator returned r from the task manager t: the endpoint is
\* closed, nothing was pushed and the task manager is as it was.
ClosesSilently(r, t) == r.ep.status = "closed" /\ r.out = << >> /\ r.tm = t

\* Every line of the set lines closes every open endpoint that is in line mode.
BadLinesClose(lines) ==
    /\ \A c \in ServerChans :
          (chan[c].status = "open" /\ chan[c].mid_command = "None")
              => \A f \in lines :
                    ClosesSilently(found_terminator(Context("found_terminator", "server", c,
                                                            Password, ServerNonce(c)),
                                                    chan[c], tm, f), tm)
    /\ \A w \in Clients :
          (cli[w].status = "open" /\ cli[w].mid_command = "None")
              => \A f \in lines :
                    ClosesSilently(found_terminator(Context("found_terminator", "client", w,
                                                            Password, ClientNonce(w)),
                                                    cli[w], tm, f), tm)

(* C34: a line without ':' or with an unknown command name, handled by an  *)
(* endpoint before or after authentication, closes the endpoint, pushes    *)
(* no frame and leaves the task manager unchanged.                         *)
C34_BadLineCloses == BadLinesClose(BadLines)

\* Every payload of the set closes every open endpoint that is not
\* authenticated, which pushes nothing and calls no handler.
PayloadsClose(payloads) ==
    /\ \A c \in ServerChans :
          (chan[c].status = "open" /\ chan[c].auth # "Done")
              => \A f \in payloads :
                    ClosesSilently(found_terminator(Context("found_terminator", "server", c,
                                                            Password, ServerNonce(c)),
                                                    chan[c], tm, f), tm)
    /\ \A w \in Clients :
          (cli[w].status = "open" /\ cli[w].auth # "Done")
              => \A f \in payloads :
                    ClosesSilently(found_terminator(Context("found_terminator", "client", w,
                                                            Password, ClientNonce(w)),
                                                    cli[w], tm, f), tm)

(* C35: an endpoint whose auth is not "Done" is in line mode with no       *)
(* pending command; a payload that reaches it closes it; and a callback    *)
(* that began with auth not "Done" hands no payload to a map, reduce,      *)
(* mapdone or reducedone handler and leaves the endpoint in line mode.     *)
C35_NoPayloadBeforeAuth ==
    /\ [](\A e \in Endpoints :
            e.auth # "Done" => e.terminator = "NL" /\ e.mid_command = "None")
    /\ [](PayloadsClose(RogueResults \cup RogueTasks))
    /\ [][ (last'.op = "found_terminator" /\ last'.auth0 # "Done")
              => /\ last'.md = "none" /\ last'.rd = "none" /\ last'.ran = "none"
                 /\ LastEndpoint'.terminator = "NL"
                 /\ LastEndpoint'.mid_command = "None" ]_vars

\* A peer that is not authenticated announced a payload, and the channel
\* was closed in line mode.
C35_Witness ==
    /\ last.op = "found_terminator" /\ last.side = "server"
    /\ last.cmd \in {"mapdone", "reducedone"}
    /\ last.auth0 # "Done"
    /\ LastEndpoint.status = "closed"
    /\ LastEndpoint.terminator = "NL"
    /\ tm.state = "MAPPING"

\* What a mapper may yield: pairs, with a repeated key, and None.
Emitted == {<< >>, <<"a", 1>>, <<"a", 2>>, <<"b", 1>>}

MaxEmitted == 2

Emissions == UNION {[1..n -> Emitted] : n \in 0..MaxEmitted}

\* The pairs of an emission, without the None's.
Kept(pairs) == SelectSeq(pairs, LAMBDA p : p # << >>)

\* The values emitted with the key k, in emission order.
ValuesOf(pairs, k) ==
    LET sel == SelectSeq(Kept(pairs), LAMBDA p : p[1] = k)
    IN [i \in 1..Len(sel) |-> sel[i][2]]

\* results groups the emitted pairs by key.
Grouped(results, pairs) ==
    /\ DOMAIN results = {Kept(pairs)[i][1] : i \in 1..Len(Kept(pairs))}
    /\ \A k \in DOMAIN results :
          results[k] = ValuesOf(pairs, k) /\ results[k] # << >>

\* The frames worker w pushed in the step.
Pushed(w) == SubSeq(c2s'[w], Len(c2s[w]) + 1, Len(c2s'[w]))

(* C36: the mapping call_map builds groups the yielded pairs by key, in    *)
(* emission order and without the None's, every list being non-empty; a    *)
(* worker that handles map(k, v) pushes one mapdone, for k and with that   *)
(* mapping of its mapper's pairs, and a worker that handles reduce(k, vs)  *)
(* pushes one reducedone with k and its reducer's result.                  *)
C36_OneResultPerAssignment ==
    /\ [](\A pairs \in Emissions : Grouped(GroupPairs(pairs, << >>), pairs))
    /\ [][ \A w \in Workers :
              (last'.side = "client" /\ last'.conn = w /\ chan[w].status = "open")
                  => /\ last'.ran = "call_map"
                         => /\ Len(Pushed(w)) = 2
                            /\ Pushed(w)[1] = Line("mapdone", <<"len">>)
                            /\ Pushed(w)[2].kind = "data"
                            /\ Pushed(w)[2].body[1] = Head(s2c[w]).body[1]
                            /\ Pushed(w)[2].body[2].some
                            /\ Grouped(Pushed(w)[2].body[2].val,
                                       MapperMap(job.mapper, Head(s2c[w]).body[1],
                                                 Head(s2c[w]).body[2]))
                     /\ last'.ran = "call_reduce"
                         => Pushed(w) = <<Line("reducedone", <<"len">>),
                                          Payload(<<Head(s2c[w]).body[1],
                                                    ReducerReduce(job.reducer,
                                                                  Head(s2c[w]).body[1],
                                                                  Head(s2c[w]).body[2])>>)>>
                     /\ last'.ran = "none"
                         => \A i \in 1..Len(Pushed(w)) :
                               Pushed(w)[i].kind = "line"
                               /\ Pushed(w)[i].cmd \notin {"mapdone", "reducedone"} ]_vars

\* A worker has answered a map assignment whose pairs fall under two keys.
C36_Witness ==
    /\ last.side = "client" /\ last.ran = "call_map"
    /\ c2s[last.conn] # << >>
    /\ c2s[last.conn][Len(c2s[last.conn])].kind = "data"
    /\ c2s[last.conn][Len(c2s[last.conn])].body[1] = "k1"
    /\ DOMAIN c2s[last.conn][Len(c2s[last.conn])].body[2].val = {"a", "b"}

\* The reduce tasks of which an assignment has been sent.
ReduceTasksSent == {t \in DOMAIN hist.sent : t[1] = "reduce"}

(* C37: with conforming workers every list of map_results is non-empty,    *)
(* every reduce assignment the coordinator has sent, the first of a key    *)
(* or a later one, carried a non-empty list, and a worker's call_reduce    *)
(* is given a non-empty list.                                              *)
C37_ReduceListsNonEmpty ==
    /\ [](\A k \in DOMAIN tm.map_results : tm.map_results[k] # << >>)
    /\ [](\A t \in ReduceTasksSent : \A vs \in hist.sent[t] : vs # << >>)
    /\ [][ \A w \in Workers :
              (last'.side = "client" /\ last'.conn = w /\ last'.ran = "call_reduce")
                  => Head(s2c[w]).body[2] # << >> ]_vars

\* A reduce task has been assigned a second time, and a worker has reduced.
C37_Witness ==
    /\ last.side = "client" /\ last.ran = "call_reduce"
    /\ \E t \in ReduceTasksSent : hist.issued[t] >= 2 /\ hist.sent[t] # {}
    /\ \E k \in DOMAIN tm.map_results : Len(tm.map_results[k]) = 2

(* C38: all the assignments sent of one task carried the same value: the   *)
(* datasource's value of the key for a map task, and for a reduce task     *)
(* the list map_results holds for the key, from the first assignment to    *)
(* the last; and the payload a callback pushes with an assignment is that  *)
(* value.                                                                  *)
C38_SameTaskSamePayload ==
    /\ [](\A t \in DOMAIN hist.sent :
            /\ Cardinality(hist.sent[t]) = 1
            /\ t[1] = "map" => hist.sent[t] = {tm.datasource[t[2]]}
            /\ t[1] = "reduce" => hist.sent[t] = {tm.map_results[t[2]]})
    /\ [][ \A w \in Workers :
              (last'.side = "server" /\ last'.conn = w /\ last'.task # << >>
                 /\ chan[w].status = "open" /\ cli[w].status = "open")
                  => /\ s2c'[w][Len(s2c'[w])].kind = "data"
                     /\ s2c'[w][Len(s2c'[w])].body[1] = last'.task[2]
                     /\ hist'.sent[last'.task] = {s2c'[w][Len(s2c'[w])].body[2]} ]_vars

\* A map task and a reduce task have each been assigned twice, the reduce
\* task with a list of two values.
C38_Witness ==
    /\ \E t \in DOMAIN hist.sent :
          t[1] = "map" /\ hist.issued[t] >= 2 /\ tm.datasource[t[2]] # << >>
    /\ \E t \in ReduceTasksSent :
          hist.issued[t] >= 2 /\ \E vs \in hist.sent[t] : Len(vs) = 2

\* The input keys of which a map result has been accepted.
MapsAccepted == {k \in DOMAIN hist.maps_applied : hist.maps_applied[k] >= 1}

====
